---- MODULE Spec2Model ----
(***************************************************************************)
(* A model of rustify (ghaerdi/rustify): the Result container (OkImpl /    *)
(* ErrImpl of src/src/result.ts), the Option container (SomeImpl /         *)
(* SomeNone of option.ts) and the function-wrapping adapters wrapInResult  *)
(* and ResultWrapper.                                                      *)
(*                                                                         *)
(* Containers live in a heap; a container's identity is its index.  Every  *)
(* method is an operator from the receiver, its arguments and the heap to  *)
(* an outcome (normal return or abnormal exit, the callbacks it invoked,   *)
(* the containers it constructed); one action per method applies it and    *)
(* records the outcome in `last`.                                          *)
(***************************************************************************)
EXTENDS Integers, Sequences, FiniteSets, TLC

VARIABLES heap, opts, objs, last

vars == <<heap, opts, objs, last>>

(***************************************************************************)
(* Bounds.                                                                 *)
(***************************************************************************)
\* the number of containers (Result and Some) alive at once
MaxHeap == 2
\* the number of objects in the store (originals and structured clones)
MaxObjs == 6

(***************************************************************************)
(* JavaScript values.  k is the type tag; n the number, or the reference   *)
(* of an object / container; s the text of a string, the message of an     *)
(* Error instance or the name of a function.                               *)
(***************************************************************************)
Num(n) == [k |-> "num", n |-> n, s |-> ""]
Str(s) == [k |-> "str", n |-> 0, s |-> s]
Bool(b) == [k |-> "bool", n |-> IF b THEN 1 ELSE 0, s |-> ""]
Undefined == [k |-> "undef", n |-> 0, s |-> ""]
NaN == [k |-> "nan", n |-> 0, s |-> ""]
Fn(name) == [k |-> "fn", n |-> 0, s |-> name]
Obj(ref) == [k |-> "obj", n |-> ref, s |-> ""]
Res(ref) == [k |-> "res", n |-> ref, s |-> ""]
Opt(ref) == [k |-> "opt", n |-> ref, s |-> ""]
\* new Error(message): an instance of the built-in class Error
NewError(message) == [k |-> "Error", n |-> 0, s |-> message]
\* { message }: an object with a message field that is no instance of Error
Failure(message) == [k |-> "failure", n |-> 0, s |-> message]

(***************************************************************************)
(* Text.  TLC concatenates strings with \o; stack lines are kept as        *)
(* sequences of characters so that String.includes can be computed.        *)
(***************************************************************************)
Digit(d) ==
  CASE d = 0 -> "0" [] d = 1 -> "1" [] d = 2 -> "2" [] d = 3 -> "3"
    [] d = 4 -> "4" [] d = 5 -> "5" [] d = 6 -> "6" [] d = 7 -> "7"
    [] d = 8 -> "8" [] d = 9 -> "9"

RECURSIVE NumStr(_)
NumStr(n) == IF n < 10 THEN Digit(n) ELSE NumStr(n \div 10) \o Digit(n % 10)

\* utils.ts toString: the text of a value inside a failure message
toString(v) ==
  CASE v.k = "num" -> NumStr(v.n)
    [] v.k = "str" -> v.s
    [] v.k = "bool" -> (IF v.n = 1 THEN "true" ELSE "false")
    [] v.k = "undef" -> "undefined"
    [] v.k = "nan" -> "NaN"
    [] v.k = "Error" -> v.s
    [] v.k = "fn" -> "[Function: " \o v.s \o "]"
    [] OTHER -> "[object Object]"

\* Array.prototype.join("") over characters
RECURSIVE Text(_)
Text(chars) == IF chars = <<>> THEN "" ELSE Head(chars) \o Text(Tail(chars))

\* Array.prototype.join("\n") over lines
RECURSIVE JoinLines(_)
JoinLines(lines) ==
  IF lines = <<>> THEN ""
  ELSE IF Len(lines) = 1 THEN Text(lines[1])
  ELSE Text(lines[1]) \o "\n" \o JoinLines(Tail(lines))

\* String.prototype.includes
Includes(line, pat) ==
  \E i \in 1..(Len(line) - Len(pat) + 1) : SubSeq(line, i, i + Len(pat) - 1) = pat

(***************************************************************************)
(* Stack frames as the engine prints them ("    at f (file)"), shortened.  *)
(***************************************************************************)
LineError == <<"E","r","r","o","r">>
FrameNewErrImpl == <<"a","t"," ","n","e","w"," ","E","r","r","I","m","p","l"," ","(","r",")">>
FrameErr == <<"a","t"," ","E","r","r"," ","(","r",")">>
FrameMapErr == <<"a","t"," ","E","r","r","I","m","p","l",".","m","a","p","E","r","r"," ","(","r",")">>
FrameAndThen == <<"a","t"," ","O","k","I","m","p","l",".","a","n","d","T","h","e","n"," ","(","r",")">>
FrameOrElse == <<"a","t"," ","E","r","r","I","m","p","l",".","o","r","E","l","s","e"," ","(","r",")">>
FrameCallback == <<"a","t"," ","<","a","n","o","n","y","m","o","u","s",">"," ","(","t",")">>
FrameWrapped == <<"a","t"," ","<","a","n","o","n","y","m","o","u","s",">"," ","(","r",")">>
FrameDivide == <<"a","t"," ","d","i","v","i","d","e"," ","(","m",")">>
FrameMain == <<"a","t"," ","m","a","i","n"," ","(","m",")">>

PatErrImpl == <<"E","r","r","I","m","p","l">>
PatErr == <<" ","E","r","r"," ">>

\* the call sites of the client: the frames below the library's own
CallerStacks == { <<FrameDivide, FrameMain>>, <<FrameMain>> }

\* call sites whose own lines hold the words the constructor looks for: a
\* client helper that is itself named Err, a client file named after ErrImpl
FrameClientErr == <<"a","t"," ","E","r","r"," ","(","m",")">>
FrameClientFile == <<"a","t"," ","t","e","s","t"," ","(","E","r","r","I","m","p","l",".","t",")">>
TraceStacks ==
  CallerStacks \cup { <<FrameClientErr, FrameMain>>, <<FrameClientFile, FrameMain>>,
                      <<FrameMain, FrameClientFile>> }


(***************************************************************************)
(* Containers.                                                             *)
(***************************************************************************)
\* OkImpl.constructor: #value = value
OkImpl_new(value) == [rev |-> 2, tag |-> "Ok", value |-> value, stack |-> ""]

\* the while loop of ErrImpl.constructor; j is firstRelevantFrame + 1
RECURSIVE FirstRelevantFrame(_, _)
FirstRelevantFrame(stackLines, j) ==
  IF /\ j <= Len(stackLines)
     /\ stackLines[j] # <<>>
     /\ (Includes(stackLines[j], PatErrImpl) \/ Includes(stackLines[j], PatErr))
  THEN FirstRelevantFrame(stackLines, j + 1)
  ELSE j

\* new Error().stack inside ErrImpl.constructor reached through Err(),
\* frames being the frames of the code that called Err()
CaptureStack(frames) == <<LineError, FrameNewErrImpl, FrameErr>> \o frames

\* ErrImpl.constructor: #stack = the trimmed lines joined, #value = value
ErrImpl_new(value, frames) ==
  LET stackLines == CaptureStack(frames)
      first == FirstRelevantFrame(stackLines, 2)
  IN [rev |-> 2, tag |-> "Err", value |-> value,
      stack |-> JoinLines(SubSeq(stackLines, first, Len(stackLines)))]

\* SomeImpl.constructor and the SomeNone instance
SomeImpl_new(value) == [tag |-> "Some", value |-> value]
SomeNone_new == [tag |-> "None", value |-> Undefined]

(***************************************************************************)
(* The object store: plain objects, arrays and generator objects, elems    *)
(* being the values of the own properties, or the elements, in order; the  *)
(* elems of a generator object are the elements it has yet to yield.       *)
(***************************************************************************)
PlainObject(elems) == [kind |-> "plain", elems |-> elems]
ArrayObject(elems) == [kind |-> "array", elems |-> elems]
GeneratorObject(elems) == [kind |-> "generator", elems |-> elems]

\* the objects of the client: { a: 1 }, [1, 2] and { inner: the first }
InitialObjects ==
  <<PlainObject(<<Num(1)>>), ArrayObject(<<Num(1), Num(2)>>), PlainObject(<<Obj(1)>>)>>
\* what the generator object of function* () { yield 1; yield 2 } yields
GeneratorElems == <<Num(1), Num(2)>>

\* the strings that are iterated, as characters
StringTable == {<<"a", "b", "c">>}
Chars(s) == CHOOSE chars \in StringTable : Text(chars) = s
\* Symbol.iterator in value, for a value of type object
IterableObject(v, os) == v.k = "obj" /\ os[v.n].kind \in {"array", "generator"}
\* [...v]: what the iterator v[Symbol.iterator]() yields when run to its
\* end; the characters of a string, the elements of an array, what a
\* generator object has yet to yield
ElementsOf(v, os) ==
  IF v.k = "str" THEN [i \in DOMAIN Chars(v.s) |-> Str(Chars(v.s)[i])]
  ELSE os[v.n].elems
\* the object whose state the iterator v[Symbol.iterator]() is, 0 when the
\* iterator is an object of its own: a generator object is its own iterator
IteratorState(v, os) ==
  IF v.k = "obj" /\ os[v.n].kind = "generator" THEN v.n ELSE 0

\* the deep copy of a value into the store os: ok says whether the value
\* could be copied, val is the copy (or the DataCloneError), os the store
\* with the copies of the objects in it.  Functions and generator objects
\* cannot be copied; a container is a class instance whose state is in
\* private fields: its copy is an empty plain object.
RECURSIVE CloneValue(_, _)
RECURSIVE CloneElems(_, _)
CloneValue(v, os) ==
  CASE v.k = "fn" ->
         [ok |-> FALSE, val |-> NewError("DataCloneError"), os |-> os]
    [] v.k = "obj" ->
         IF os[v.n].kind = "generator"
         THEN [ok |-> FALSE, val |-> NewError("DataCloneError"), os |-> os]
         ELSE LET e == CloneElems(os[v.n].elems, os) IN
              IF ~e.ok THEN [ok |-> FALSE, val |-> e.val, os |-> os]
              ELSE [ok |-> TRUE, val |-> Obj(Len(e.os) + 1),
                    os |-> Append(e.os, [kind |-> os[v.n].kind, elems |-> e.elems])]
    [] v.k \in {"res", "opt"} ->
         [ok |-> TRUE, val |-> Obj(Len(os) + 1), os |-> Append(os, PlainObject(<<>>))]
    [] OTHER ->
         [ok |-> TRUE, val |-> v, os |-> os]
CloneElems(elems, os) ==
  IF elems = <<>> THEN [ok |-> TRUE, val |-> Undefined, elems |-> <<>>, os |-> os]
  ELSE LET c == CloneValue(Head(elems), os) IN
       IF ~c.ok THEN [ok |-> FALSE, val |-> c.val, elems |-> <<>>, os |-> os]
       ELSE LET r == CloneElems(Tail(elems), c.os) IN
            IF ~r.ok THEN r
            ELSE [ok |-> TRUE, val |-> Undefined, elems |-> <<c.val>> \o r.elems, os |-> r.os]

\* a variant that copies the object and shares what its properties refer to
structuredClone_shallow(v, os) ==
  CASE v.k = "fn" ->
         [ok |-> FALSE, val |-> NewError("DataCloneError"), oalloc |-> <<>>]
    [] v.k = "obj" ->
         IF os[v.n].kind = "generator"
         THEN [ok |-> FALSE, val |-> NewError("DataCloneError"), oalloc |-> <<>>]
         ELSE [ok |-> TRUE, val |-> Obj(Len(os) + 1), oalloc |-> <<os[v.n]>>]
    [] v.k \in {"res", "opt"} ->
         [ok |-> TRUE, val |-> Obj(Len(os) + 1), oalloc |-> <<PlainObject(<<>>)>>]
    [] OTHER ->
         [ok |-> TRUE, val |-> v, oalloc |-> <<>>]
\* structuredClone(v): a copy, oalloc being the objects it constructed, or
\* DataCloneError for what cannot be copied
structuredClone(v, os) ==
  LET c == CloneValue(v, os) IN
  [ok |-> c.ok, val |-> c.val,
   oalloc |-> IF c.ok THEN SubSeq(c.os, Len(os) + 1, Len(c.os)) ELSE <<>>]

(***************************************************************************)
(* The callbacks of the client.  Apply(f, args, frames, h) is the call     *)
(* f(...args) made from code whose frames are `frames`, h being the heap:  *)
(* either a normal return of val or an abnormal exit throwing val; alloc   *)
(* are the containers the callback constructed.                            *)
(***************************************************************************)
Returns(v) == [kind |-> "ret", val |-> v, alloc |-> <<>>]
Throws(v) == [kind |-> "throw", val |-> v, alloc |-> <<>>]

Apply(f, args, frames, h) ==
  LET arg == IF args = <<>> THEN Undefined ELSE args[1] IN
  CASE f = "id" -> Returns(arg)                                 \* x => x
    [] f = "double" ->                                           \* x => x * 2
         Returns(IF arg.k = "num" THEN Num(arg.n * 2) ELSE NaN)
    [] f = "isFive" -> Returns(Bool(arg = Num(5)))               \* x => x === 5
    [] f = "const0" -> Returns(Num(0))                           \* _ => 0
    [] f = "toOk" ->                                             \* x => Ok(x)
         [kind |-> "ret", val |-> Res(Len(h) + 1), alloc |-> <<OkImpl_new(arg)>>]
    [] f = "toErr" ->                                  \* _ => Err("unknown error")
         [kind |-> "ret", val |-> Res(Len(h) + 1),
          alloc |-> <<ErrImpl_new(Str("unknown error"), <<FrameCallback>> \o frames)>>]
    [] f = "first" -> Returns(Res(1))               \* _ => r, r built beforehand
    [] f = "boom" -> Throws(NewError("boom"))       \* _ => { throw new Error("boom") }
    [] f = "throwStr" -> Throws(Str("oops"))        \* _ => { throw "oops" }
    [] f = "toFailure" ->   \* e => ({ message: e instanceof Error ? e.message : String(e) })
         Returns(Failure(IF arg.k \in {"Error", "str"} THEN arg.s ELSE "[object Object]"))
    [] f = "throwObj" ->                  \* _ => { throw { message: "custom" } }
         Throws(Failure("custom"))
    [] f = "divide" ->       \* (a, b) => { if (b === 0) throw new Error(..); return a / b }
         IF args[2] = Num(0) THEN Throws(NewError("cannot divide by zero"))
         ELSE Returns(Num(args[1].n \div args[2].n))

\* the callbacks by the type the method's signature asks for
MapFns == {"id", "double", "boom"}
PredicateFns == {"isFive", "boom"}
ResultFns == {"toOk", "toErr", "first", "boom"}
\* the functions handed to the wrapping adapters, with the arguments of a call
WrappedFns == {"divide", "throwStr", "throwObj"}
ArgsOf(f) ==
  IF f = "divide" THEN {<<Num(10), Num(2)>>, <<Num(10), Num(0)>>, <<Num(0), Num(10)>>}
  ELSE {<<Num(5)>>}
\* the errorTransform argument of wrapInResult, "none" when it is omitted
TransformFns == {"none", "id", "toFailure", "boom"}

\* the record of one invocation of a callback
CallRec(f, args, c) == [fn |-> f, args |-> args, kind |-> c.kind, val |-> c.val]

(***************************************************************************)
(* Outcomes of a method call: kind "ret" with the returned value, or kind  *)
(* "throw" with the thrown value; calls are the callback invocations made, *)
(* in order; alloc / salloc / oalloc the Results / Options / objects        *)
(* constructed; warned says console.warn was called; items is what the     *)
(* returned iterator yields when run to its end, and drain the object      *)
(* whose state that iterator is (0 when it is an object of its own).       *)
(***************************************************************************)
Out(kind, val, calls, alloc) ==
  [kind |-> kind, val |-> val, calls |-> calls, alloc |-> alloc,
   oalloc |-> <<>>, salloc |-> <<>>, warned |-> FALSE, items |-> <<>>, drain |-> 0]
Return(v) == Out("ret", v, <<>>, <<>>)
Raise(v) == Out("throw", v, <<>>, <<>>)
\* `return fn(x)`: whatever the callback did is what the method does
Forward(f, arg, c) == Out(c.kind, c.val, <<CallRec(f, <<arg>>, c)>>, c.alloc)

(***************************************************************************)
(* class OkImpl.  self is the receiver's reference, h the heap, fr the     *)
(* frames of the caller.                                                   *)
(***************************************************************************)
OkImpl_isOk(self, h) == Return(Bool(TRUE))
OkImpl_isOkAnd(self, fn, fr, h) == Forward(fn, h[self].value, Apply(fn, <<h[self].value>>, fr, h))
\* a variant that answers as ErrImpl does
OkImpl_isErr_true(self, h) == Return(Bool(TRUE))
OkImpl_isErr(self, h) == Return(Bool(FALSE))
OkImpl_isErrAnd(self, fn, fr, h) == Return(Bool(FALSE))
OkImpl_ok(self, h) == Return(h[self].value)
\* a variant that hands out the value
OkImpl_err_value(self, h) == Return(h[self].value)
OkImpl_err(self, h) == Return(Undefined)

OkImpl_map(self, fn, fr, h) ==
  LET c == Apply(fn, <<h[self].value>>, fr, h) IN
  IF c.kind = "throw" THEN Forward(fn, h[self].value, c)
  ELSE Out("ret", Res(Len(h) + Len(c.alloc) + 1), <<CallRec(fn, <<h[self].value>>, c)>>,
           c.alloc \o <<OkImpl_new(c.val)>>)

OkImpl_mapOr(self, defaultValue, fn, fr, h) ==
  Forward(fn, h[self].value, Apply(fn, <<h[self].value>>, fr, h))

OkImpl_mapOrElse(self, defaultFn, fn, fr, h) ==
  Forward(fn, h[self].value, Apply(fn, <<h[self].value>>, fr, h))

OkImpl_mapErr(self, fn, fr, h) == Return(Res(self))

\* a variant that returns what the callback returned
OkImpl_inspect_returns(self, fn, fr, h) ==
  Forward(fn, h[self].value, Apply(fn, <<h[self].value>>, fr, h))
OkImpl_inspect(self, fn, fr, h) ==
  LET c == Apply(fn, <<h[self].value>>, fr, h) IN
  IF c.kind = "throw" THEN Forward(fn, h[self].value, c)
  ELSE Out("ret", Res(self), <<CallRec(fn, <<h[self].value>>, c)>>, c.alloc)

OkImpl_inspectErr(self, fn, fr, h) == Return(Res(self))
OkImpl_expect(self, message, h) == Return(h[self].value)
OkImpl_unwrap(self, h) == Return(h[self].value)
OkImpl_unwrapOr(self, defaultValue, h) == Return(h[self].value)
OkImpl_unwrapOrElse(self, fn, fr, h) == Return(h[self].value)
\* a variant that keeps the receiver
OkImpl_and_self(self, res, h) == Return(Res(self))
OkImpl_and(self, res, h) == Return(Res(res))

\* a variant that wraps what fn returned, as map does
OkImpl_andThen_wraps(self, fn, fr, h) ==
  LET c == Apply(fn, <<h[self].value>>, <<FrameAndThen>> \o fr, h) IN
  IF c.kind = "throw" THEN Forward(fn, h[self].value, c)
  ELSE Out("ret", Res(Len(h) + Len(c.alloc) + 1), <<CallRec(fn, <<h[self].value>>, c)>>,
           c.alloc \o <<OkImpl_new(c.val)>>)
OkImpl_andThen(self, fn, fr, h) ==
  Forward(fn, h[self].value, Apply(fn, <<h[self].value>>, <<FrameAndThen>> \o fr, h))

OkImpl_or(self, res, h) == Return(Res(self))
OkImpl_orElse(self, fn, fr, h) == Return(Res(self))

\* a variant that falls back without a word
CloneFailed_silent(self) == Return(Res(self))
\* the catch block of cloned(): console.warn(...); return this
CloneFailed(self) == [Return(Res(self)) EXCEPT !.warned = TRUE]

\* a variant without the try / catch
OkImpl_cloned_nocatch(self, h, os) ==
  LET sc == structuredClone(h[self].value, os) IN
  IF sc.ok
  THEN [Out("ret", Res(Len(h) + 1), <<>>, <<OkImpl_new(sc.val)>>) EXCEPT !.oalloc = sc.oalloc]
  ELSE Raise(sc.val)
OkImpl_cloned(self, h, os) ==
  LET sc == structuredClone(h[self].value, os) IN
  IF sc.ok
  THEN [Out("ret", Res(Len(h) + 1), <<>>, <<OkImpl_new(sc.val)>>) EXCEPT !.oalloc = sc.oalloc]
  ELSE CloneFailed(self)

OkImpl_expectErr(self, message, h) ==
  Raise(NewError(message \o ": " \o toString(h[self].value)))

\* a variant with the message of ErrImpl.unwrap
OkImpl_unwrapErr_asErr(self, h) ==
  Raise(NewError("Tried to unwrap Error: " \o toString(h[self].value) \o "\n" \o h[self].stack))
OkImpl_unwrapErr(self, h) ==
  Raise(NewError("Tried to unwrap Ok value: " \o toString(h[self].value)))

\* a variant that takes the elements out of the value as it yields them
OkImpl_iterator_shift(self, h, os) ==
  LET value == h[self].value IN
  IF value.k = "obj" /\ IterableObject(value, os)
  THEN [Return(Undefined) EXCEPT !.items = ElementsOf(value, os), !.drain = value.n]
  ELSE Return(Undefined)
\* ok[Symbol.iterator](): the value's own iterator when the value is of
\* type object and has one, or else an iterator that yields nothing
OkImpl_iterator(self, h, os) ==
  LET value == h[self].value IN
  IF value.k = "obj" /\ IterableObject(value, os)
  THEN [Return(Undefined) EXCEPT !.items = ElementsOf(value, os),
                                 !.drain = IteratorState(value, os)]
  ELSE Return(Undefined)

(***************************************************************************)
(* class ErrImpl.                                                          *)
(***************************************************************************)
ErrImpl_isOk(self, h) == Return(Bool(FALSE))
\* a variant that asks the predicate about the error
ErrImpl_isOkAnd_asks(self, fn, fr, h) ==
  Forward(fn, h[self].value, Apply(fn, <<h[self].value>>, fr, h))
ErrImpl_isOkAnd(self, fn, fr, h) == Return(Bool(FALSE))
ErrImpl_isErr(self, h) == Return(Bool(TRUE))
ErrImpl_isErrAnd(self, fn, fr, h) == Forward(fn, h[self].value, Apply(fn, <<h[self].value>>, fr, h))
\* a variant that hands out the error
ErrImpl_ok_error(self, h) == Return(h[self].value)
ErrImpl_ok(self, h) == Return(Undefined)
ErrImpl_err(self, h) == Return(h[self].value)
\* a variant that transforms the error
ErrImpl_map_applies(self, fn, fr, h) ==
  LET c == Apply(fn, <<h[self].value>>, fr, h) IN
  IF c.kind = "throw" THEN Forward(fn, h[self].value, c)
  ELSE Out("ret", Res(Len(h) + Len(c.alloc) + 1), <<CallRec(fn, <<h[self].value>>, c)>>,
           c.alloc \o <<ErrImpl_new(c.val, fr)>>)
ErrImpl_map(self, fn, fr, h) == Return(Res(self))
\* a variant that maps the default
ErrImpl_mapOr_maps(self, defaultValue, fn, fr, h) ==
  Forward(fn, defaultValue, Apply(fn, <<defaultValue>>, fr, h))
ErrImpl_mapOr(self, defaultValue, fn, fr, h) == Return(defaultValue)

ErrImpl_mapOrElse(self, defaultFn, fn, fr, h) ==
  Forward(defaultFn, h[self].value, Apply(defaultFn, <<h[self].value>>, fr, h))

\* a variant whose new container carries the receiver's trace over
ErrImpl_mapErr_keeps(self, fn, fr, h) ==
  LET c == Apply(fn, <<h[self].value>>, <<FrameMapErr>> \o fr, h) IN
  IF c.kind = "throw" THEN Forward(fn, h[self].value, c)
  ELSE Out("ret", Res(Len(h) + Len(c.alloc) + 1), <<CallRec(fn, <<h[self].value>>, c)>>,
           c.alloc \o <<[ErrImpl_new(c.val, <<FrameMapErr>> \o fr)
                           EXCEPT !.stack = h[self].stack]>>)
ErrImpl_mapErr(self, fn, fr, h) ==
  LET c == Apply(fn, <<h[self].value>>, <<FrameMapErr>> \o fr, h) IN
  IF c.kind = "throw" THEN Forward(fn, h[self].value, c)
  ELSE Out("ret", Res(Len(h) + Len(c.alloc) + 1), <<CallRec(fn, <<h[self].value>>, c)>>,
           c.alloc \o <<ErrImpl_new(c.val, <<FrameMapErr>> \o fr)>>)

ErrImpl_inspect(self, fn, fr, h) == Return(Res(self))

ErrImpl_inspectErr(self, fn, fr, h) ==
  LET c == Apply(fn, <<h[self].value>>, fr, h) IN
  IF c.kind = "throw" THEN Forward(fn, h[self].value, c)
  ELSE Out("ret", Res(self), <<CallRec(fn, <<h[self].value>>, c)>>, c.alloc)

\* a variant that reports the trace of the call of expect, made from main
ErrImpl_expect_retraced(self, message, h) ==
  Raise(NewError(message \o ": " \o toString(h[self].value) \o "\n" \o JoinLines(<<FrameMain>>)))
ErrImpl_expect(self, message, h) ==
  Raise(NewError(message \o ": " \o toString(h[self].value) \o "\n" \o h[self].stack))

\* a variant that leaves the origin trace out
ErrImpl_unwrap_notrace(self, h) ==
  Raise(NewError("Tried to unwrap Error: " \o toString(h[self].value)))
ErrImpl_unwrap(self, h) ==
  Raise(NewError("Tried to unwrap Error: " \o toString(h[self].value) \o "\n" \o h[self].stack))

\* a variant that calls a default that is a function, as unwrapOrElse does
ErrImpl_unwrapOr_lazy(self, defaultValue, h) ==
  IF defaultValue.k = "fn"
  THEN Forward(defaultValue.s, h[self].value, Apply(defaultValue.s, <<h[self].value>>, <<>>, h))
  ELSE Return(defaultValue)
ErrImpl_unwrapOr(self, defaultValue, h) == Return(defaultValue)

ErrImpl_unwrapOrElse(self, fn, fr, h) ==
  Forward(fn, h[self].value, Apply(fn, <<h[self].value>>, fr, h))

ErrImpl_and(self, res, h) == Return(Res(self))
\* a variant that does not short-circuit
ErrImpl_andThen_eager(self, fn, fr, h) == OkImpl_andThen(self, fn, fr, h)
ErrImpl_andThen(self, fn, fr, h) == Return(Res(self))
ErrImpl_or(self, res, h) == Return(Res(res))

ErrImpl_orElse(self, fn, fr, h) ==
  Forward(fn, h[self].value, Apply(fn, <<h[self].value>>, <<FrameOrElse>> \o fr, h))

ErrImpl_cloned(self, h, os) == Return(Res(self))
ErrImpl_expectErr(self, message, h) == Return(h[self].value)
ErrImpl_unwrapErr(self, h) == Return(h[self].value)
ErrImpl_iterator(self, h, os) == Return(Undefined)

(***************************************************************************)
(* The earlier revision of the Result container (src/result.ts), the one   *)
(* ResultWrapper builds: its containers carry rev = 1.                     *)
(***************************************************************************)
OkImplV1_new(value) == [rev |-> 1, tag |-> "Ok", value |-> value, stack |-> ""]

\* String.prototype.startsWith
StartsWith(line, pat) == Len(line) >= Len(pat) /\ SubSeq(line, 1, Len(pat)) = pat

\* ErrImpl.constructor of the earlier revision: slice(2), then one shift
ErrImplV1_new(value, frames) ==
  LET all == CaptureStack(frames)
      stackLines == SubSeq(all, 3, Len(all))
      kept == IF stackLines # <<>> /\ StartsWith(stackLines[1], PatErrImpl)
              THEN Tail(stackLines) ELSE stackLines
  IN [rev |-> 1, tag |-> "Err", value |-> value, stack |-> JoinLines(kept)]

(***************************************************************************)
(* class SomeImpl / class SomeNone (option.ts).  self is a reference into  *)
(* the Option heap o, whose first entry is the exported None.              *)
(***************************************************************************)
SomeImpl_isSome(self, o) == Return(Bool(TRUE))
SomeImpl_isNone(self, o) == Return(Bool(FALSE))
SomeImpl_isSomeAnd(self, fn, fr, o, h) ==
  Forward(fn, o[self].value, Apply(fn, <<o[self].value>>, fr, h))
SomeImpl_unwrapOr(self, defaultValue, o) == Return(o[self].value)
SomeImpl_expect(self, message, o) == Return(o[self].value)
SomeImpl_unwrap(self, o) == Return(o[self].value)
\* some[Symbol.iterator](): the iterator of Object(value) when it has one
SomeImpl_iterator(self, o, os) ==
  LET value == o[self].value IN
  IF value.k = "str" \/ IterableObject(value, os)
  THEN [Return(Undefined) EXCEPT !.items = ElementsOf(value, os),
                                 !.drain = IteratorState(value, os)]
  ELSE Return(Undefined)
SomeNone_iterator(self, o, os) == Return(Undefined)
SomeNone_isSome(self, o) == Return(Bool(FALSE))
SomeNone_isNone(self, o) == Return(Bool(TRUE))
SomeNone_isSomeAnd(self, fn, fr, o, h) == Return(Bool(FALSE))
SomeNone_unwrapOr(self, defaultValue, o) == Return(defaultValue)
\* a variant that fails as unwrap() does
SomeNone_expect_fixed(self, message, o) == Raise(NewError("Tried to unwrap None"))
SomeNone_expect(self, message, o) == Raise(NewError(message))
\* a variant that throws a failure of a class of its own
SomeNone_unwrap_typed(self, o) ==
  Raise([k |-> "InvalidUnwrap", n |-> 0, s |-> "Tried to unwrap None"])
SomeNone_unwrap(self, o) == Raise(NewError("Tried to unwrap None"))

(***************************************************************************)
(* ok() and err() of the earlier revision, which answer with an Option: o  *)
(* is the Option heap, whose first entry is the None that option.ts        *)
(* exports.                                                                *)
(***************************************************************************)
OkImplV1_ok(self, h, o) ==
  [Return(Opt(Len(o) + 1)) EXCEPT !.salloc = <<SomeImpl_new(h[self].value)>>]
OkImplV1_err(self, h, o) == Return(Opt(1))
\* a variant that constructs the absent Option it returns
ErrImplV1_ok_fresh(self, h, o) ==
  [Return(Opt(Len(o) + 1)) EXCEPT !.salloc = <<SomeNone_new>>]
ErrImplV1_ok(self, h, o) == Return(Opt(1))
ErrImplV1_err(self, h, o) ==
  [Return(Opt(Len(o) + 1)) EXCEPT !.salloc = <<SomeImpl_new(h[self].value)>>]

\* divideResult(a, b) and divideOption(a, b) of main.ts, called from main
divideResult(a, b, h) ==
  IF a = Num(0) \/ b = Num(0)
  THEN Out("ret", Res(Len(h) + 1), <<>>,
           <<ErrImplV1_new(Str("Cannot divide by zero"), <<FrameDivide, FrameMain>>)>>)
  ELSE Out("ret", Res(Len(h) + 1), <<>>, <<OkImplV1_new(Num(a.n \div b.n))>>)
divideOption(a, b, o) ==
  IF a = Num(0) \/ b = Num(0) THEN Return(Opt(1))
  ELSE [Return(Opt(Len(o) + 1)) EXCEPT !.salloc = <<SomeImpl_new(Num(a.n \div b.n))>>]

(***************************************************************************)
(* The wrapping adapters: the call wrapInResult(fn, errorTransform)(...args)*)
(* and the call ResultWrapper(fn)(...args).                                *)
(***************************************************************************)
\* a variant that calls fn with the arguments in the opposite order
CallWrapped_reversed(fn, args, fr, h) ==
  Apply(fn, [i \in DOMAIN args |-> args[Len(args) + 1 - i]], <<FrameWrapped>> \o fr, h)
\* fn(...args) inside the returned closure
CallWrapped(fn, args, fr, h) == Apply(fn, args, <<FrameWrapped>> \o fr, h)

\* a variant that stores every caught value as it is
DefaultTransform_raw(error) == error
\* error instanceof Error ? error.message : error
DefaultTransform(error) == IF error.k = "Error" THEN Str(error.s) ELSE error

\* a variant that extracts the message from what errorTransform returned
TransformedError_extract(errorTransform, error, t) ==
  IF errorTransform # "none" THEN DefaultTransform(t.val) ELSE DefaultTransform(error)
\* errorTransform ? errorTransform(error) : the default; t is the outcome
\* of the call errorTransform(error)
TransformedError(errorTransform, error, t) ==
  IF errorTransform # "none" THEN t.val ELSE DefaultTransform(error)

\* a variant that reads error.message of whatever was caught
wrapInResult_message(fn, errorTransform, args, fr, h) ==
  LET c == CallWrapped(fn, args, fr, h)
      h1 == h \o c.alloc
      t == Apply(errorTransform, <<c.val>>, <<FrameWrapped>> \o fr, h1)
      transformedError == IF errorTransform # "none" THEN t.val
                          ELSE IF c.val.k \in {"Error", "failure"} THEN Str(c.val.s)
                          ELSE Undefined
  IN IF c.kind = "ret"
     THEN Out("ret", Res(Len(h1) + 1), <<CallRec(fn, args, c)>>,
              c.alloc \o <<OkImpl_new(c.val)>>)
     ELSE IF errorTransform # "none" /\ t.kind = "throw"
     THEN Out("throw", t.val, <<CallRec(fn, args, c), CallRec(errorTransform, <<c.val>>, t)>>,
              c.alloc \o t.alloc)
     ELSE Out("ret", Res(Len(h1) + (IF errorTransform # "none" THEN Len(t.alloc) ELSE 0) + 1),
              IF errorTransform # "none"
              THEN <<CallRec(fn, args, c), CallRec(errorTransform, <<c.val>>, t)>>
              ELSE <<CallRec(fn, args, c)>>,
              c.alloc \o (IF errorTransform # "none" THEN t.alloc ELSE <<>>)
                \o <<ErrImpl_new(transformedError, <<FrameWrapped>> \o fr)>>)
wrapInResult(fn, errorTransform, args, fr, h) ==
  LET c == CallWrapped(fn, args, fr, h)
      h1 == h \o c.alloc
      t == Apply(errorTransform, <<c.val>>, <<FrameWrapped>> \o fr, h1)
      transformedError == TransformedError(errorTransform, c.val, t)
  IN IF c.kind = "ret"
     THEN Out("ret", Res(Len(h1) + 1), <<CallRec(fn, args, c)>>,
              c.alloc \o <<OkImpl_new(c.val)>>)
     ELSE IF errorTransform # "none" /\ t.kind = "throw"
     THEN Out("throw", t.val, <<CallRec(fn, args, c), CallRec(errorTransform, <<c.val>>, t)>>,
              c.alloc \o t.alloc)
     ELSE Out("ret", Res(Len(h1) + (IF errorTransform # "none" THEN Len(t.alloc) ELSE 0) + 1),
              IF errorTransform # "none"
              THEN <<CallRec(fn, args, c), CallRec(errorTransform, <<c.val>>, t)>>
              ELSE <<CallRec(fn, args, c)>>,
              c.alloc \o (IF errorTransform # "none" THEN t.alloc ELSE <<>>)
                \o <<ErrImpl_new(transformedError, <<FrameWrapped>> \o fr)>>)

ResultWrapper(fn, args, fr, h) ==
  LET c == Apply(fn, args, <<FrameWrapped>> \o fr, h) IN
  IF c.kind = "ret"
  THEN Out("ret", Res(Len(h) + Len(c.alloc) + 1), <<CallRec(fn, args, c)>>,
           c.alloc \o <<OkImplV1_new(c.val)>>)
  ELSE Out("ret", Res(Len(h) + Len(c.alloc) + 1), <<CallRec(fn, args, c)>>,
           c.alloc \o <<ErrImplV1_new(c.val, <<FrameWrapped>> \o fr)>>)

(***************************************************************************)
(* The state machine.                                                      *)
(***************************************************************************)
\* the values the client hands to Ok() and Some()
Vals == {Num(5), Obj(1), Obj(2), Fn("const0")}
\* the values the client hands to Err()
ErrVals == {Str("e"), Obj(1)}
\* the values the client passes as defaults
Defaults == {Num(0), Fn("const0")}
Messages == {"should divide", "m"}

NoCall ==
  [op |-> "none", self |-> 0, args |-> <<>>, msg |-> "", base |-> 0, kind |-> "none",
   val |-> Undefined, calls |-> <<>>, warned |-> FALSE, items |-> <<>>]

Init ==
  /\ heap = <<>>
  /\ opts = <<SomeNone_new>>
  /\ objs = InitialObjects
  /\ last = NoCall

\* the containers of the later revision
R2 == {i \in DOMAIN heap : heap[i].rev = 2}

\* the number of containers alive, the exported None aside
Live == Len(heap) + Len(opts) - 1

\* the store after a for-of has run, or has been left with break: a
\* generator object that was iterated has finished
Drained(os, ref) == IF ref = 0 THEN os ELSE [os EXCEPT ![ref].elems = <<>>]

\* one call, made when the client has dealt with the outcome of the one
\* before: the constructed containers and objects join the heaps and the
\* outcome is recorded, base being the number of Results before the call
Step(op, self, args, msg, out) ==
  /\ last = NoCall
  /\ Live + Len(out.alloc) + Len(out.salloc) <= MaxHeap
  /\ Len(objs) + Len(out.oalloc) <= MaxObjs
  /\ heap' = heap \o out.alloc
  /\ opts' = opts \o out.salloc
  /\ objs' = Drained(objs, out.drain) \o out.oalloc
  /\ last' = [op |-> op, self |-> self, args |-> args, msg |-> msg,
              base |-> Len(heap), kind |-> out.kind,
              val |-> out.val, calls |-> out.calls, warned |-> out.warned,
              items |-> out.items]

\* Ok(value) and Err(value) called by the client
NewOk ==
  \E v \in Vals :
    Step("Ok", 0, <<v>>, "", Out("ret", Res(Len(heap) + 1), <<>>, <<OkImpl_new(v)>>))

NewErr ==
  \E v \in ErrVals, fr \in CallerStacks :
    Step("Err", 0, <<v>>, "", Out("ret", Res(Len(heap) + 1), <<>>, <<ErrImpl_new(v, fr)>>))

IsOk ==
  \E self \in R2 :
    Step("isOk", self, <<>>, "",
         IF heap[self].tag = "Ok" THEN OkImpl_isOk(self, heap) ELSE ErrImpl_isOk(self, heap))

IsErr ==
  \E self \in R2 :
    Step("isErr", self, <<>>, "",
         IF heap[self].tag = "Ok" THEN OkImpl_isErr(self, heap) ELSE ErrImpl_isErr(self, heap))

IsOkAnd ==
  \E self \in R2, fn \in PredicateFns, fr \in CallerStacks :
    Step("isOkAnd", self, <<Fn(fn)>>, "",
         IF heap[self].tag = "Ok" THEN OkImpl_isOkAnd(self, fn, fr, heap)
         ELSE ErrImpl_isOkAnd(self, fn, fr, heap))

IsErrAnd ==
  \E self \in R2, fn \in PredicateFns, fr \in CallerStacks :
    Step("isErrAnd", self, <<Fn(fn)>>, "",
         IF heap[self].tag = "Ok" THEN OkImpl_isErrAnd(self, fn, fr, heap)
         ELSE ErrImpl_isErrAnd(self, fn, fr, heap))

GetOk ==
  \E self \in R2 :
    Step("ok", self, <<>>, "",
         IF heap[self].tag = "Ok" THEN OkImpl_ok(self, heap) ELSE ErrImpl_ok(self, heap))

GetErr ==
  \E self \in R2 :
    Step("err", self, <<>>, "",
         IF heap[self].tag = "Ok" THEN OkImpl_err(self, heap) ELSE ErrImpl_err(self, heap))

Map ==
  \E self \in R2, fn \in MapFns, fr \in CallerStacks :
    Step("map", self, <<Fn(fn)>>, "",
         IF heap[self].tag = "Ok" THEN OkImpl_map(self, fn, fr, heap)
         ELSE ErrImpl_map(self, fn, fr, heap))

MapOr ==
  \E self \in R2, d \in Defaults, fn \in MapFns, fr \in CallerStacks :
    Step("mapOr", self, <<d, Fn(fn)>>, "",
         IF heap[self].tag = "Ok" THEN OkImpl_mapOr(self, d, fn, fr, heap)
         ELSE ErrImpl_mapOr(self, d, fn, fr, heap))

MapOrElse ==
  \E self \in R2, dfn \in MapFns, fn \in MapFns, fr \in CallerStacks :
    Step("mapOrElse", self, <<Fn(dfn), Fn(fn)>>, "",
         IF heap[self].tag = "Ok" THEN OkImpl_mapOrElse(self, dfn, fn, fr, heap)
         ELSE ErrImpl_mapOrElse(self, dfn, fn, fr, heap))

MapErr ==
  \E self \in R2, fn \in MapFns, fr \in CallerStacks :
    Step("mapErr", self, <<Fn(fn)>>, "",
         IF heap[self].tag = "Ok" THEN OkImpl_mapErr(self, fn, fr, heap)
         ELSE ErrImpl_mapErr(self, fn, fr, heap))

Inspect ==
  \E self \in R2, fn \in MapFns, fr \in CallerStacks :
    Step("inspect", self, <<Fn(fn)>>, "",
         IF heap[self].tag = "Ok" THEN OkImpl_inspect(self, fn, fr, heap)
         ELSE ErrImpl_inspect(self, fn, fr, heap))

InspectErr ==
  \E self \in R2, fn \in MapFns, fr \in CallerStacks :
    Step("inspectErr", self, <<Fn(fn)>>, "",
         IF heap[self].tag = "Ok" THEN OkImpl_inspectErr(self, fn, fr, heap)
         ELSE ErrImpl_inspectErr(self, fn, fr, heap))

Expect ==
  \E self \in R2, message \in Messages :
    Step("expect", self, <<>>, message,
         IF heap[self].tag = "Ok" THEN OkImpl_expect(self, message, heap)
         ELSE ErrImpl_expect(self, message, heap))

Unwrap ==
  \E self \in R2 :
    Step("unwrap", self, <<>>, "",
         IF heap[self].tag = "Ok" THEN OkImpl_unwrap(self, heap) ELSE ErrImpl_unwrap(self, heap))

UnwrapOr ==
  \E self \in R2, d \in Defaults :
    Step("unwrapOr", self, <<d>>, "",
         IF heap[self].tag = "Ok" THEN OkImpl_unwrapOr(self, d, heap)
         ELSE ErrImpl_unwrapOr(self, d, heap))

UnwrapOrElse ==
  \E self \in R2, fn \in MapFns, fr \in CallerStacks :
    Step("unwrapOrElse", self, <<Fn(fn)>>, "",
         IF heap[self].tag = "Ok" THEN OkImpl_unwrapOrElse(self, fn, fr, heap)
         ELSE ErrImpl_unwrapOrElse(self, fn, fr, heap))

And ==
  \E self \in R2, res \in R2 :
    Step("and", self, <<Res(res)>>, "",
         IF heap[self].tag = "Ok" THEN OkImpl_and(self, res, heap)
         ELSE ErrImpl_and(self, res, heap))

AndThen ==
  \E self \in R2, fn \in ResultFns, fr \in CallerStacks :
    Step("andThen", self, <<Fn(fn)>>, "",
         IF heap[self].tag = "Ok" THEN OkImpl_andThen(self, fn, fr, heap)
         ELSE ErrImpl_andThen(self, fn, fr, heap))

Or ==
  \E self \in R2, res \in R2 :
    Step("or", self, <<Res(res)>>, "",
         IF heap[self].tag = "Ok" THEN OkImpl_or(self, res, heap)
         ELSE ErrImpl_or(self, res, heap))

OrElse ==
  \E self \in R2, fn \in ResultFns, fr \in CallerStacks :
    Step("orElse", self, <<Fn(fn)>>, "",
         IF heap[self].tag = "Ok" THEN OkImpl_orElse(self, fn, fr, heap)
         ELSE ErrImpl_orElse(self, fn, fr, heap))

Cloned ==
  \E self \in R2 :
    Step("cloned", self, <<>>, "",
         IF heap[self].tag = "Ok" THEN OkImpl_cloned(self, heap, objs)
         ELSE ErrImpl_cloned(self, heap, objs))

ExpectErr ==
  \E self \in R2, message \in Messages :
    Step("expectErr", self, <<>>, message,
         IF heap[self].tag = "Ok" THEN OkImpl_expectErr(self, message, heap)
         ELSE ErrImpl_expectErr(self, message, heap))

UnwrapErr ==
  \E self \in R2 :
    Step("unwrapErr", self, <<>>, "",
         IF heap[self].tag = "Ok" THEN OkImpl_unwrapErr(self, heap)
         ELSE ErrImpl_unwrapErr(self, heap))

Iterate ==
  \E self \in R2 :
    Step("iterate", self, <<>>, "",
         IF heap[self].tag = "Ok" THEN OkImpl_iterator(self, heap, objs)
         ELSE ErrImpl_iterator(self, heap, objs))

\* Some(value) called by the client
NewSome ==
  \E v \in Vals :
    Step("Some", 0, <<v>>, "",
         [Return(Opt(Len(opts) + 1)) EXCEPT !.salloc = <<SomeImpl_new(v)>>])

OptionExpect ==
  \E self \in DOMAIN opts, message \in Messages :
    Step("Option.expect", self, <<>>, message,
         IF opts[self].tag = "Some" THEN SomeImpl_expect(self, message, opts)
         ELSE SomeNone_expect(self, message, opts))

OptionUnwrap ==
  \E self \in DOMAIN opts :
    Step("Option.unwrap", self, <<>>, "",
         IF opts[self].tag = "Some" THEN SomeImpl_unwrap(self, opts)
         ELSE SomeNone_unwrap(self, opts))

OptionIsSome ==
  \E self \in DOMAIN opts :
    Step("Option.isSome", self, <<>>, "",
         IF opts[self].tag = "Some" THEN SomeImpl_isSome(self, opts)
         ELSE SomeNone_isSome(self, opts))

OptionIsNone ==
  \E self \in DOMAIN opts :
    Step("Option.isNone", self, <<>>, "",
         IF opts[self].tag = "Some" THEN SomeImpl_isNone(self, opts)
         ELSE SomeNone_isNone(self, opts))

OptionIsSomeAnd ==
  \E self \in DOMAIN opts, fn \in PredicateFns, fr \in CallerStacks :
    Step("Option.isSomeAnd", self, <<Fn(fn)>>, "",
         IF opts[self].tag = "Some" THEN SomeImpl_isSomeAnd(self, fn, fr, opts, heap)
         ELSE SomeNone_isSomeAnd(self, fn, fr, opts, heap))

OptionUnwrapOr ==
  \E self \in DOMAIN opts, d \in Defaults :
    Step("Option.unwrapOr", self, <<d>>, "",
         IF opts[self].tag = "Some" THEN SomeImpl_unwrapOr(self, d, opts)
         ELSE SomeNone_unwrapOr(self, d, opts))

\* the containers of the earlier revision
R1 == {i \in DOMAIN heap : heap[i].rev = 1}

CallDivideResult ==
  \E args \in ArgsOf("divide") :
    Step("divideResult", 0, args, "", divideResult(args[1], args[2], heap))

CallDivideOption ==
  \E args \in ArgsOf("divide") :
    Step("divideOption", 0, args, "", divideOption(args[1], args[2], opts))

GetOkV1 ==
  \E self \in R1 :
    Step("ok", self, <<>>, "",
         IF heap[self].tag = "Ok" THEN OkImplV1_ok(self, heap, opts)
         ELSE ErrImplV1_ok(self, heap, opts))

GetErrV1 ==
  \E self \in R1 :
    Step("err", self, <<>>, "",
         IF heap[self].tag = "Ok" THEN OkImplV1_err(self, heap, opts)
         ELSE ErrImplV1_err(self, heap, opts))

CallWrapInResult ==
  \E fn \in WrappedFns, errorTransform \in TransformFns, fr \in CallerStacks :
    \E args \in ArgsOf(fn) :
      Step("wrapInResult", 0, <<Fn(fn), Fn(errorTransform)>> \o args, "",
           wrapInResult(fn, errorTransform, args, fr, heap))

CallResultWrapper ==
  \E fn \in WrappedFns, fr \in CallerStacks :
    \E args \in ArgsOf(fn) :
      Step("ResultWrapper", 0, <<Fn(fn)>> \o args, "", ResultWrapper(fn, args, fr, heap))

\* the client drops its references: the containers become garbage
Release ==
  /\ last = NoCall
  /\ heap # <<>> \/ Len(opts) > 1
  /\ heap' = <<>>
  /\ opts' = <<opts[1]>>
  /\ objs' = InitialObjects
  /\ last' = NoCall

\* for (const x of r) { break }: the first element at most is taken
Abandoned(out) ==
  [out EXCEPT !.items = IF out.items = <<>> THEN <<>> ELSE <<out.items[1]>>]

IterateBreak ==
  \E self \in R2 :
    Step("iterate/break", self, <<>>, "",
         Abandoned(IF heap[self].tag = "Ok" THEN OkImpl_iterator(self, heap, objs)
                   ELSE ErrImpl_iterator(self, heap, objs)))

OptionIterate ==
  \E self \in DOMAIN opts :
    Step("Option.iterate", self, <<>>, "",
         IF opts[self].tag = "Some" THEN SomeImpl_iterator(self, opts, objs)
         ELSE SomeNone_iterator(self, opts, objs))

OptionIterateBreak ==
  \E self \in DOMAIN opts :
    Step("Option.iterate/break", self, <<>>, "",
         Abandoned(IF opts[self].tag = "Some" THEN SomeImpl_iterator(self, opts, objs)
                   ELSE SomeNone_iterator(self, opts, objs)))

\* the values the client wraps and iterates
IterVals == {Num(5), Str("abc"), Obj(1), Obj(2)}
NewOkIter ==
  \E v \in IterVals :
    Step("Ok", 0, <<v>>, "", Out("ret", Res(Len(heap) + 1), <<>>, <<OkImpl_new(v)>>))
NewSomeIter ==
  \E v \in IterVals :
    Step("Some", 0, <<v>>, "",
         [Return(Opt(Len(opts) + 1)) EXCEPT !.salloc = <<SomeImpl_new(v)>>])
\* Ok(gen()) and Some(gen()), gen being function* () { yield 1; yield 2 }
NewOkGenerator ==
  Step("Ok", 0, <<Obj(Len(objs) + 1)>>, "",
       [Out("ret", Res(Len(heap) + 1), <<>>, <<OkImpl_new(Obj(Len(objs) + 1))>>)
          EXCEPT !.oalloc = <<GeneratorObject(GeneratorElems)>>])
NewSomeGenerator ==
  Step("Some", 0, <<Obj(Len(objs) + 1)>>, "",
       [Return(Opt(Len(opts) + 1))
          EXCEPT !.salloc = <<SomeImpl_new(Obj(Len(objs) + 1))>>,
                 !.oalloc = <<GeneratorObject(GeneratorElems)>>])

\* Ok(value) for an object that has an object inside
NestedVals == {Obj(3)}
NewOkNested ==
  \E v \in NestedVals :
    Step("Ok", 0, <<v>>, "", Out("ret", Res(Len(heap) + 1), <<>>, <<OkImpl_new(v)>>))

\* object.a = 9, array[0] = 9: the client changes an object it can reach,
\* whatever it holds
Mutate ==
  \E r \in DOMAIN objs :
    /\ objs[r].kind \in {"plain", "array"}
    /\ objs[r].elems # <<>>
    /\ objs[r].elems[1].k = "num"
    /\ objs[r].elems[1] # Num(9)
    /\ objs' = [objs EXCEPT ![r].elems[1] = Num(9)]
    /\ UNCHANGED <<heap, opts, last>>

\* Ok(undefined) and Err(undefined)
AbsentVals == {Undefined}
NewOkAbsent ==
  \E v \in AbsentVals :
    Step("Ok", 0, <<v>>, "", Out("ret", Res(Len(heap) + 1), <<>>, <<OkImpl_new(v)>>))
NewErrAbsent ==
  \E v \in AbsentVals, fr \in CallerStacks :
    Step("Err", 0, <<v>>, "", Out("ret", Res(Len(heap) + 1), <<>>, <<ErrImpl_new(v, fr)>>))

\* the client has dealt with the outcome of its call
Resume ==
  /\ last # NoCall
  /\ last' = NoCall
  /\ UNCHANGED <<heap, opts, objs>>

\* the methods of the later revision's Result
ResultCall ==
  \/ IsOk \/ IsErr \/ IsOkAnd \/ IsErrAnd \/ GetOk \/ GetErr
  \/ Map \/ MapOr \/ MapOrElse \/ MapErr \/ Inspect \/ InspectErr
  \/ Expect \/ Unwrap \/ UnwrapOr \/ UnwrapOrElse
  \/ And \/ AndThen \/ Or \/ OrElse \/ Cloned
  \/ ExpectErr \/ UnwrapErr \/ Iterate

\* a client of the later revision's Result
Next == NewOk \/ NewErr \/ ResultCall \/ Resume \/ Release

Spec == Init /\ [][Next]_vars

\* a client of the wrapping adapters
NextWrap == CallWrapInResult \/ CallResultWrapper \/ Resume \/ Release

SpecWrap == Init /\ [][NextWrap]_vars

\* a client that forces containers of all kinds
NextUnwrap ==
  \/ NewOk \/ NewErr \/ NewSome
  \/ Expect \/ Unwrap \/ ExpectErr \/ UnwrapErr \/ UnwrapOrElse
  \/ OptionExpect \/ OptionUnwrap
  \/ Resume \/ Release

SpecUnwrap == Init /\ [][NextUnwrap]_vars

\* a client that clones containers and changes the objects inside
NextClone ==
  \/ NewOk \/ NewOkNested \/ NewOkGenerator \/ NewErr
  \/ Cloned \/ Mutate \/ Resume \/ Release

SpecClone == Init /\ [][NextClone]_vars

\* the methods of Option
OptionCall ==
  \/ OptionIsSome \/ OptionIsNone \/ OptionIsSomeAnd
  \/ OptionExpect \/ OptionUnwrap \/ OptionUnwrapOr

\* a client of Option
NextOption == NewSome \/ OptionCall \/ Resume \/ Release

SpecOption == Init /\ [][NextOption]_vars

\* a client of the earlier revision, whose Results answer with Options
NextNone ==
  \/ CallDivideResult \/ CallDivideOption \/ NewSome \/ GetOkV1 \/ GetErrV1
  \/ OptionCall \/ Resume \/ Release

SpecNone == Init /\ [][NextNone]_vars

(***************************************************************************)
(* Chains of two calls.  r.andThen(f).andThen(g) and r.map(f).map(g) make  *)
(* the second call on what the first returned, in the heap the first left; *)
(* x => f(x).andThen(g) and x => g(f(x)) are the callbacks a client        *)
(* composes from f and g.  calls lists the invocations of f and g.         *)
(***************************************************************************)
Result_andThen(self, fn, fr, h) ==
  IF h[self].tag = "Ok" THEN OkImpl_andThen(self, fn, fr, h)
  ELSE ErrImpl_andThen(self, fn, fr, h)

Result_map(self, fn, fr, h) ==
  IF h[self].tag = "Ok" THEN OkImpl_map(self, fn, fr, h) ELSE ErrImpl_map(self, fn, fr, h)

\* the outcome of a chain whose first call did a and whose second did b
Then(a, b) == [b EXCEPT !.calls = a.calls \o b.calls, !.alloc = a.alloc \o b.alloc]

\* r.andThen(f).andThen(g); a failure of the first call ends the chain
AndThenAndThen(self, f, g, fr, h) ==
  LET a == Result_andThen(self, f, fr, h)
  IN IF a.kind = "throw" THEN a
     ELSE Then(a, Result_andThen(a.val.n, g, fr, h \o a.alloc))

\* r.andThen(x => f(x).andThen(g)); OkImpl.andThen returns what the callback
\* returned, ErrImpl.andThen does not call it
AndThenComposed(self, f, g, fr, h) ==
  LET x == h[self].value
      inner == <<FrameCallback, FrameAndThen>> \o fr
      a == Forward(f, x, Apply(f, <<x>>, inner, h))
  IN IF h[self].tag = "Err" THEN ErrImpl_andThen(self, "composed", fr, h)
     ELSE IF a.kind = "throw" THEN a
     ELSE Then(a, Result_andThen(a.val.n, g, inner, h \o a.alloc))

\* r.map(f).map(g)
MapMap(self, f, g, fr, h) ==
  LET a == Result_map(self, f, fr, h)
  IN IF a.kind = "throw" THEN a
     ELSE Then(a, Result_map(a.val.n, g, fr, h \o a.alloc))

\* r.map(x => g(f(x))); OkImpl.map wraps what the callback returned,
\* ErrImpl.map does not call it
MapComposed(self, f, g, fr, h) ==
  LET x == h[self].value
      c1 == Apply(f, <<x>>, <<FrameCallback>> \o fr, h)
      c2 == Apply(g, <<c1.val>>, <<FrameCallback>> \o fr, h)
  IN IF h[self].tag = "Err" THEN ErrImpl_map(self, "composed", fr, h)
     ELSE IF c1.kind = "throw" THEN Forward(f, x, c1)
     ELSE IF c2.kind = "throw"
          THEN Out("throw", c2.val, <<CallRec(f, <<x>>, c1), CallRec(g, <<c1.val>>, c2)>>, <<>>)
     ELSE Out("ret", Res(Len(h) + 1), <<CallRec(f, <<x>>, c1), CallRec(g, <<c1.val>>, c2)>>,
              <<OkImpl_new(c2.val)>>)

\* one chain, made like one call by a client within its bound; what the
\* chain constructed on its way stays
ChainStep(op, self, args, out) ==
  /\ last = NoCall
  /\ Live <= MaxHeap
  /\ heap' = heap \o out.alloc
  /\ last' = [op |-> op, self |-> self, args |-> args, msg |-> "",
              base |-> Len(heap), kind |-> out.kind,
              val |-> out.val, calls |-> out.calls, warned |-> out.warned,
              items |-> out.items]
  /\ UNCHANGED <<opts, objs>>

ChainAndThen ==
  \E self \in R2, f \in ResultFns, g \in ResultFns, fr \in CallerStacks :
    ChainStep("andThen.andThen", self, <<Fn(f), Fn(g)>>, AndThenAndThen(self, f, g, fr, heap))

ComposeAndThen ==
  \E self \in R2, f \in ResultFns, g \in ResultFns, fr \in CallerStacks :
    ChainStep("andThen(andThen)", self, <<Fn(f), Fn(g)>>, AndThenComposed(self, f, g, fr, heap))

ChainMap ==
  \E self \in R2, f \in MapFns, g \in MapFns, fr \in CallerStacks :
    ChainStep("map.map", self, <<Fn(f), Fn(g)>>, MapMap(self, f, g, fr, heap))

ComposeMap ==
  \E self \in R2, f \in MapFns, g \in MapFns, fr \in CallerStacks :
    ChainStep("map(map)", self, <<Fn(f), Fn(g)>>, MapComposed(self, f, g, fr, heap))

\* a client that chains andThen and map
NextChain ==
  \/ NewOk \/ NewErr
  \/ AndThen \/ Map
  \/ ChainAndThen \/ ComposeAndThen
  \/ ChainMap \/ ComposeMap
  \/ Resume \/ Release

SpecChain == Init /\ [][NextChain]_vars

\* Err(v) of either revision, called from each of the call sites; the second
\* argument records the caller's own lines as the engine prints them
TracedErr ==
  \E v \in ErrVals, fr \in TraceStacks :
    Step("Err", 0, <<v, Str(JoinLines(fr))>>, "",
         Out("ret", Res(Len(heap) + 1), <<>>, <<ErrImpl_new(v, fr)>>))

TracedErrV1 ==
  \E v \in ErrVals, fr \in TraceStacks :
    Step("Err", 0, <<v, Str(JoinLines(fr))>>, "",
         Out("ret", Res(Len(heap) + 1), <<>>, <<ErrImplV1_new(v, fr)>>))

\* mapErr called from each of the call sites, which the second argument records
TracedMapErr ==
  \E self \in R2, fn \in MapFns, fr \in TraceStacks :
    Step("mapErr", self, <<Fn(fn), Str(JoinLines(fr))>>, "",
         IF heap[self].tag = "Ok" THEN OkImpl_mapErr(self, fn, fr, heap)
         ELSE ErrImpl_mapErr(self, fn, fr, heap))

NextTrace ==
  \/ TracedErr
  \/ TracedErrV1
  \/ TracedMapErr
  \/ Map \/ And \/ AndThen \/ Inspect \/ InspectErr \/ Cloned
  \/ Unwrap
  \/ Resume
  \/ Release

SpecTrace == Init /\ [][NextTrace]_vars

\* a client that reads containers with ok() and err()
NextAccess ==
  \/ NewOk \/ NewOkAbsent \/ NewErr \/ NewErrAbsent
  \/ GetOk \/ GetErr \/ Resume \/ Release

SpecAccess == Init /\ [][NextAccess]_vars

\* a client that iterates containers, to the end or not
NextIter ==
  \/ NewOkIter \/ NewOkGenerator \/ NewErr \/ NewSomeIter \/ NewSomeGenerator
  \/ Iterate \/ IterateBreak \/ OptionIterate \/ OptionIterateBreak
  \/ Resume \/ Release

SpecIter == Init /\ [][NextIter]_vars

(***************************************************************************)
(* Properties.                                                             *)
(***************************************************************************)
\* the receiver of the recorded call, and what it wraps
Self == heap[last.self]
OnOk(op) == last.op = op /\ Self.tag = "Ok"
OnErr(op) == last.op = op /\ Self.tag = "Err"
\* the recorded call invoked callback f exactly once, with v, and nothing else
CalledOnce(f, v) ==
  /\ Len(last.calls) = 1
  /\ last.calls[1].fn = f.s
  /\ last.calls[1].args = <<v>>
\* the recorded call did what its single callback did: it returned the value
\* the callback returned, or failed with the failure of the callback
AsCallback == last.kind = last.calls[1].kind /\ last.val = last.calls[1].val
ReturnedSelf == last.kind = "ret" /\ last.val = Res(last.self)

\* C1: andThen and orElse short-circuit.  On Ok, andThen(fn) invokes fn
\* exactly once with the value and returns what fn returned, orElse(fn)
\* returns the receiver without invoking fn; on Err, andThen(fn) returns the
\* receiver without invoking fn, orElse(fn) invokes fn exactly once with the
\* error and returns what fn returned.
C1_ShortCircuit ==
  /\ OnOk("andThen") => CalledOnce(last.args[1], Self.value) /\ AsCallback
  /\ OnOk("orElse") => last.calls = <<>> /\ ReturnedSelf
  /\ OnErr("andThen") => last.calls = <<>> /\ ReturnedSelf
  /\ OnErr("orElse") => CalledOnce(last.args[1], Self.value) /\ AsCallback

\* Err(e).orElse(fn) returned the container fn built, not the receiver
C1_Witness ==
  /\ OnErr("orElse")
  /\ last.kind = "ret"
  /\ last.val.n > last.base
  /\ last.calls[1].val = last.val

\* C2: and and or return their operands by identity.  On Ok, and(other)
\* returns other itself (an Err too) and or(other) the receiver; on Err,
\* and(other) returns the receiver and or(other) other itself.
C2_AndOrIdentity ==
  /\ OnOk("and") => last.kind = "ret" /\ last.val = last.args[1]
  /\ OnOk("or") => ReturnedSelf
  /\ OnErr("and") => ReturnedSelf
  /\ OnErr("or") => last.kind = "ret" /\ last.val = last.args[1]
  /\ last.op \in {"and", "or"} => last.calls = <<>> /\ Len(heap) = last.base

\* Ok(v).and(other) with other an Err, another container than the receiver
C2_Witness ==
  /\ OnOk("and")
  /\ last.args[1].n # last.self
  /\ heap[last.args[1].n].tag = "Err"
  /\ last.val = last.args[1]

\* the recorded call returned a container built during the call, of variant
\* tag, holding what its single callback returned
ReturnedNew(tag) ==
  /\ last.kind = "ret"
  /\ last.val.k = "res"
  /\ last.val.n > last.base
  /\ heap[last.val.n].tag = tag
  /\ heap[last.val.n].value = last.calls[1].val

\* C3: map transforms only the success channel and mapErr only the failure
\* channel.  Ok(v).map(fn) is a new Ok holding fn(v), Ok(v).mapErr(fn) the
\* receiver with fn not invoked; Err(e).map(fn) is the receiver with fn not
\* invoked, Err(e).mapErr(fn) a new Err holding fn(e).
C3_MapChannels ==
  /\ OnOk("map") =>
       /\ CalledOnce(last.args[1], Self.value)
       /\ last.calls[1].kind = "ret" => ReturnedNew("Ok")
  /\ OnOk("mapErr") => last.calls = <<>> /\ ReturnedSelf
  /\ OnErr("map") => last.calls = <<>> /\ ReturnedSelf
  /\ OnErr("mapErr") =>
       /\ CalledOnce(last.args[1], Self.value)
       /\ last.calls[1].kind = "ret" => ReturnedNew("Err")

\* Ok(5).map(x => x * 2) is a new Ok holding 10
C3_Witness ==
  /\ OnOk("map")
  /\ Self.value = Num(5)
  /\ last.val.n # last.self
  /\ heap[last.val.n] = OkImpl_new(Num(10))

\* C4: unwrapOr(default) never invokes its argument: on Err it returns the
\* argument as it is, a function too, on Ok the wrapped value;
\* unwrapOrElse(fn) invokes fn exactly once with the error on Err and returns
\* its result, and does not invoke it on Ok, returning the wrapped value.
C4_UnwrapOr ==
  /\ last.op = "unwrapOr" => last.calls = <<>> /\ last.kind = "ret"
  /\ OnErr("unwrapOr") => last.val = last.args[1]
  /\ OnOk("unwrapOr") => last.val = Self.value
  /\ OnErr("unwrapOrElse") => CalledOnce(last.args[1], Self.value) /\ AsCallback
  /\ OnOk("unwrapOrElse") =>
       last.calls = <<>> /\ last.kind = "ret" /\ last.val = Self.value

\* Err(e).unwrapOr(f), f a function: f is returned, not called
C4_Witness ==
  /\ OnErr("unwrapOr")
  /\ last.args[1].k = "fn"
  /\ last.val = last.args[1]
  /\ last.calls = <<>>

\* C5: unwrap() and expect(message) return the wrapped value on Ok; on
\* Err(e), expect(message) fails with the message message + ": " +
\* stringify(e) + newline + the stored origin trace, and unwrap() with
\* "Tried to unwrap Error: " + stringify(e) + newline + the stored trace.
C5_UnwrapMessages ==
  /\ OnOk("unwrap") \/ OnOk("expect") => last.kind = "ret" /\ last.val = Self.value
  /\ OnErr("expect") =>
       /\ last.kind = "throw"
       /\ last.val.s = last.msg \o ": " \o toString(Self.value) \o "\n" \o Self.stack
  /\ OnErr("unwrap") =>
       /\ last.kind = "throw"
       /\ last.val.s = "Tried to unwrap Error: " \o toString(Self.value) \o "\n" \o Self.stack

\* Err("e"), built in divide called from main, is unwrapped
C5_Witness ==
  /\ OnErr("unwrap")
  /\ last.val.s = "Tried to unwrap Error: e\nat divide (m)\nat main (m)"

\* C6: unwrapErr() and expectErr(message) return the wrapped error on Err;
\* on Ok(v), expectErr(message) fails with the message message + ": " +
\* stringify(v) and unwrapErr() with "Tried to unwrap Ok value: " +
\* stringify(v), without an origin trace.
C6_UnwrapErrMessages ==
  /\ OnErr("unwrapErr") \/ OnErr("expectErr") => last.kind = "ret" /\ last.val = Self.value
  /\ OnOk("expectErr") =>
       /\ last.kind = "throw"
       /\ last.val.s = last.msg \o ": " \o toString(Self.value)
  /\ OnOk("unwrapErr") =>
       /\ last.kind = "throw"
       /\ last.val.s = "Tried to unwrap Ok value: " \o toString(Self.value)

\* unwrapErr() on Ok(5)
C6_Witness ==
  /\ OnOk("unwrapErr")
  /\ last.val.s = "Tried to unwrap Ok value: 5"

\* the methods of Result other than unwrap, expect, unwrapErr and expectErr
Combinators ==
  {"isOk", "isErr", "isOkAnd", "isErrAnd", "ok", "err", "map", "mapOr", "mapOrElse",
   "mapErr", "inspect", "inspectErr", "unwrapOr", "unwrapOrElse", "and", "andThen",
   "or", "orElse", "cloned", "iterate"}

\* C7: a call of an operation other than unwrap, expect, unwrapErr and
\* expectErr exits abnormally only if a callback it invoked did, and then
\* with the failure of that callback; when the callbacks return normally
\* the call does too.
C7_NoOwnFailure ==
  last.op \in Combinators =>
    /\ last.kind \in {"ret", "throw"}
    /\ last.kind = "throw" =>
         /\ last.calls # <<>>
         /\ last.calls[Len(last.calls)].kind = "throw"
         /\ last.calls[Len(last.calls)].val = last.val
    /\ (\A i \in DOMAIN last.calls : last.calls[i].kind = "ret") => last.kind = "ret"

\* Err(e).unwrapOrElse(fn), fn throwing: the call fails with what fn threw
C7_Witness ==
  /\ OnErr("unwrapOrElse")
  /\ last.kind = "throw"
  /\ last.val = NewError("boom")

\* the calls that force a container and fail
FailedUnwrapOnErr == last.op \in {"unwrap", "expect"} /\ last.kind = "throw"
FailedUnwrapOnOk == last.op \in {"unwrapErr", "expectErr"} /\ last.kind = "throw"
FailedUnwrapOnNone == last.op \in {"Option.unwrap", "Option.expect"} /\ last.kind = "throw"

\* C8 as stated: the three failures are of three kinds of their own
\* (UnwrapOnErr, UnwrapOnOk, InvalidUnwrap), none the kind of a failure
\* thrown by a callback
C8_DistinctKinds ==
  /\ FailedUnwrapOnErr => last.val.k = "UnwrapOnErr"
  /\ FailedUnwrapOnOk => last.val.k = "UnwrapOnOk"
  /\ FailedUnwrapOnNone => last.val.k = "InvalidUnwrap"

\* C8, amended: the three failures are all instances of the built-in Error,
\* the kind a callback's `throw new Error(..)` has as well: the kind does not
\* tell them apart
C8_OneKind ==
  /\ FailedUnwrapOnErr \/ FailedUnwrapOnOk \/ FailedUnwrapOnNone => last.val.k = "Error"
  /\ OnErr("unwrapOrElse") /\ last.kind = "throw" /\ last.args[1] = Fn("boom")
       => last.val.k = "Error"

\* None.unwrap() has failed
C8_Witness ==
  /\ last.op = "Option.unwrap"
  /\ opts[last.self].tag = "None"
  /\ last.val = NewError("Tried to unwrap None")

\* C9: containers are immutable.  Whatever is called, a container keeps the
\* variant, the wrapped value and the trace it was constructed with as long
\* as it lives; it has one of the two variants, and isOk() and isErr() answer
\* with opposite booleans, isOk() with true exactly for Ok.
C9_Immutable ==
  [][/\ \A i \in DOMAIN heap : i \in DOMAIN heap' => heap'[i] = heap[i]
     /\ \A i \in DOMAIN heap' : heap'[i].tag \in {"Ok", "Err"}
     /\ last'.op = "isOk" => last'.val = Bool(heap'[last'.self].tag = "Ok")
     /\ last'.op = "isErr" => last'.val = Bool(heap'[last'.self].tag # "Ok")]_vars

\* isErr() on an Ok, after which the Ok is as it was
C9_Witness ==
  /\ OnOk("isErr")
  /\ last.val = Bool(FALSE)

\* C10: a call of a callable returned by wrapInResult / ResultWrapper
\* returns a Result and never exits abnormally
C10_AdapterNeverThrows ==
  last.op \in {"wrapInResult", "ResultWrapper"} =>
    /\ last.kind = "ret"
    /\ last.val.k = "res"
    /\ last.val.n \in DOMAIN heap

\* a call wrapInResult(fn, errorTransform)(...args) has been made: the
\* function that was wrapped, the arguments given, whether errorTransform was
\* omitted, the outcome of fn, and the container that came back
WrapCalled == last.op = "wrapInResult"
WrappedFn == last.args[1].s
GivenTransform == last.args[2].s
GivenArgs == SubSeq(last.args, 3, Len(last.args))
FnThrew == WrapCalled /\ last.calls[1].kind = "throw"
Caught == last.calls[1].val
HasMessageField(v) == v.k \in {"Error", "failure"}
\* the call returned a container of the given variant, constructed by it
Constructed(tag) ==
  /\ last.kind = "ret"
  /\ last.val.k = "res"
  /\ last.val.n > last.base
  /\ last.val.n \in DOMAIN heap
  /\ heap[last.val.n].tag = tag
ReturnedErrOf(v) == Constructed("Err") /\ heap[last.val.n].value = v

\* C11 as stated: errorTransform omitted, every caught value that has a
\* message field yields Err(that message)
C11_MessageField ==
  FnThrew /\ GivenTransform = "none" /\ HasMessageField(Caught)
    => ReturnedErrOf(Str(Caught.s))

\* C11, amended: errorTransform omitted, a caught instance of Error yields
\* Err(its message); a caught object that has a message field and is no
\* instance of Error is stored itself
C11_ErrorInstance ==
  FnThrew /\ GivenTransform = "none" =>
    /\ Caught.k = "Error" => ReturnedErrOf(Str(Caught.s))
    /\ Caught.k = "failure" => ReturnedErrOf(Caught)

\* wrapInResult(divide)(10, 0): Err("cannot divide by zero")
C11_Witness ==
  /\ FnThrew /\ GivenTransform = "none"
  /\ Caught = NewError("cannot divide by zero")
  /\ ReturnedErrOf(Str("cannot divide by zero"))

\* C12: errorTransform omitted, a caught value without a message field (a
\* bare string) yields an Err that holds the caught value itself
C12_ThrownValueKept ==
  FnThrew /\ GivenTransform = "none" /\ ~HasMessageField(Caught)
    => ReturnedErrOf(Caught)

\* wrapInResult(() => { throw "oops" })(): Err("oops")
C12_Witness ==
  /\ FnThrew /\ GivenTransform = "none"
  /\ Caught = Str("oops")
  /\ ReturnedErrOf(Str("oops"))

\* C13: with an errorTransform, fn throwing makes exactly one call of
\* errorTransform, after fn and with the caught value as its one argument,
\* and what it returns is what the Err holds, no message extracted; fn
\* returning normally makes no call of errorTransform
C13_TransformOnce ==
  WrapCalled /\ GivenTransform # "none" =>
    /\ FnThrew =>
         /\ Len(last.calls) = 2
         /\ last.calls[2].fn = GivenTransform
         /\ last.calls[2].args = <<Caught>>
         /\ last.calls[2].kind = "ret" => ReturnedErrOf(last.calls[2].val)
    /\ ~FnThrew => Len(last.calls) = 1 /\ last.calls[1].fn = WrappedFn

\* wrapInResult(divide, e => e)(10, 0): the Err holds the Error instance
C13_Witness ==
  /\ FnThrew /\ GivenTransform = "id"
  /\ Caught = NewError("cannot divide by zero")
  /\ ReturnedErrOf(NewError("cannot divide by zero"))

\* C14: one call of the wrapped callable makes one call of fn, the first
\* call made, with the given arguments in the given order: its record is
\* that of fn applied to them; when fn returns r the call returns a new Ok(r)
C14_CalledOnceWithArgs ==
  WrapCalled =>
    /\ Cardinality({i \in DOMAIN last.calls : last.calls[i].fn = WrappedFn}) = 1
    /\ last.calls[1] = CallRec(WrappedFn, GivenArgs, Apply(WrappedFn, GivenArgs, <<>>, <<>>))
    /\ last.calls[1].kind = "ret" =>
         /\ Constructed("Ok")
         /\ heap[last.val.n].value = last.calls[1].val
         /\ Len(last.calls) = 1

\* wrapInResult(divide)(0, 10): Ok(0), where divide(10, 0) would have thrown
C14_Witness ==
  /\ WrapCalled
  /\ GivenArgs = <<Num(0), Num(10)>>
  /\ Constructed("Ok")
  /\ heap[last.val.n].value = Num(0)

\* what a value looks like to one who compares structure and not
\* references (toEqual): the value itself, or, for an object, its kind and
\* what its properties look like, in the store os
RECURSIVE Tree(_, _)
Tree(v, os) ==
  IF v.k = "obj"
  THEN [k |-> "obj", n |-> 0, s |-> os[v.n].kind,
        elems |-> [i \in DOMAIN os[v.n].elems |-> Tree(os[v.n].elems[i], os)]]
  ELSE [k |-> v.k, n |-> v.n, s |-> v.s, elems |-> <<>>]
\* the value can be deep-copied
CanClone(v, os) == CloneValue(v, os).ok
\* the step is a call of cloned() on an Ok / on an Err
ClonedStepOn(tag) ==
  /\ last = NoCall
  /\ last'.op = "cloned"
  /\ heap[last'.self].tag = tag

\* C15 as stated: cloned() on an Ok returns a new Ok, and the value of the
\* new Ok, when an object, is another object than the value of the receiver
C15_AlwaysNewOk ==
  OnOk("cloned") =>
    /\ Constructed("Ok")
    /\ Self.value.k = "obj" => heap[last.val.n].value # Self.value

\* C15, amended: cloned() on Ok(v), v being a value that can be deep-copied,
\* returns a new Ok whose value looks like v; when v is an object the value
\* is another object, and as long as the client holds the two no change of
\* an object changes what both the original and the copy look like.
\* cloned() on Err(e) returns the receiver and constructs nothing.
C15_ClonedCopy ==
  [][/\ ClonedStepOn("Ok") /\ CanClone(heap[last'.self].value, objs) =>
          /\ last'.kind = "ret"
          /\ last'.val = Res(Len(heap) + 1)
          /\ Len(heap') = Len(heap) + 1
          /\ heap'[Len(heap')].tag = "Ok"
          /\ Tree(heap'[Len(heap')].value, objs') = Tree(heap[last'.self].value, objs)
          /\ heap[last'.self].value.k = "obj" =>
               heap'[Len(heap')].value # heap[last'.self].value
     /\ OnOk("cloned") /\ last.val.n > last.base =>
          ~ /\ Tree(Self.value, objs') # Tree(Self.value, objs)
            /\ Tree(heap[last.val.n].value, objs') # Tree(heap[last.val.n].value, objs)
     /\ ClonedStepOn("Err") =>
          /\ last'.kind = "ret"
          /\ last'.val = Res(last'.self)
          /\ heap' = heap
          /\ objs' = objs]_vars

\* Ok({ inner: { a: 1 } }).cloned() has returned, and the client has then
\* changed the inner object of the original: the copy no longer looks like
\* the original
C15_Witness ==
  /\ OnOk("cloned")
  /\ Constructed("Ok")
  /\ Self.value = Obj(3)
  /\ heap[last.val.n].value # Obj(3)
  /\ Tree(Self.value, objs) # Tree(heap[last.val.n].value, objs)
  /\ Tree(heap[last.val.n].value, objs) = Tree(Obj(3), InitialObjects)

\* C16: cloned() on an Ok whose value cannot be deep-copied does not fail:
\* it returns the receiver, constructs no container, and has called
\* console.warn
C16_BestEffort ==
  OnOk("cloned") /\ ~CanClone(Self.value, objs) =>
    /\ last.kind = "ret"
    /\ last.val = Res(last.self)
    /\ Len(heap) = last.base
    /\ last.warned

\* Ok(_ => 0).cloned() has returned the receiver, with a warning
C16_Witness ==
  /\ OnOk("cloned")
  /\ Self.value = Fn("const0")
  /\ last.val = Res(last.self)
  /\ last.warned

\* the value supports iteration: a string, an array, a generator object
IsIterable(v, os) == v.k = "str" \/ IterableObject(v, os)

\* C17: [...r] of an Ok(v) is [...v] when v supports iteration and empty
\* when it does not; [...r] of an Err is empty
C17_IterateAsValue ==
  [][last = NoCall /\ last'.op = "iterate" =>
       last'.items = IF heap[last'.self].tag = "Ok"
                        /\ IsIterable(heap[last'.self].value, objs)
                      THEN ElementsOf(heap[last'.self].value, objs)
                      ELSE <<>>]_vars

\* C18: [...r] of an Ok that wraps a string is the characters of the
\* string, in order
C18_IterateString ==
  OnOk("iterate") /\ Self.value.k = "str" =>
    last.items = [i \in DOMAIN Chars(Self.value.s) |-> Str(Chars(Self.value.s)[i])]

\* the step is an iteration of a container, run to the end or left with
\* break; the value the container wraps
IterOps == {"iterate", "iterate/break", "Option.iterate", "Option.iterate/break"}
IterStep == last = NoCall /\ last'.op \in IterOps
ToTheEnd == last'.op \in {"iterate", "Option.iterate"}
Iterated ==
  IF last'.op \in {"iterate", "iterate/break"} THEN heap[last'.self].value
  ELSE opts[last'.self].value
\* the store with every object as it was when it was constructed
AsNew(os) ==
  [r \in DOMAIN os |->
     IF r \in DOMAIN InitialObjects THEN InitialObjects[r]
     ELSE GeneratorObject(GeneratorElems)]
\* what the container yielded, or would have, the first time it was
\* iterated to the end
FirstTime ==
  IF last'.op \in {"iterate", "iterate/break"}
  THEN IF heap[last'.self].tag = "Ok"
       THEN OkImpl_iterator(last'.self, heap, AsNew(objs)).items
       ELSE ErrImpl_iterator(last'.self, heap, AsNew(objs)).items
  ELSE IF opts[last'.self].tag = "Some"
       THEN SomeImpl_iterator(last'.self, opts, AsNew(objs)).items
       ELSE SomeNone_iterator(last'.self, opts, AsNew(objs)).items
\* the wrapped value is a generator object, which is its own iterator
OwnIterator == Iterated.k = "obj" /\ objs[Iterated.n].kind = "generator"

\* C19 as stated: every iteration of a container to the end yields what the
\* first one yielded, whatever iterations came before
C19_Restartable ==
  [][IterStep /\ ToTheEnd => last'.items = FirstTime]_vars

\* C19, amended: an iteration of a container leaves the wrapped value as it
\* was, and run to the end yields what the first one yielded, unless the
\* wrapped value is its own iterator (a generator object): then an
\* iteration yields what the earlier ones have left, and leaves nothing
C19_RestartableValue ==
  [][IterStep =>
       /\ ~OwnIterator =>
            /\ objs' = objs
            /\ ToTheEnd => last'.items = FirstTime
            /\ ~ToTheEnd /\ FirstTime # <<>> => last'.items = <<FirstTime[1]>>
       /\ OwnIterator =>
            /\ ToTheEnd => last'.items = objs[Iterated.n].elems
            /\ objs'[Iterated.n].elems = <<>>]_vars

\* Ok(gen()) is iterated after an iteration of it: nothing is yielded
C19_Witness ==
  /\ OnOk("iterate")
  /\ Self.value.k = "obj"
  /\ objs[Self.value.n].kind = "generator"
  /\ last.items = <<>>

\* C20: the origin trace of an Err is the one captured when the container
\* was constructed and is never recomputed: the container keeps it whatever
\* is called, and every unwrap() and expect() on the container reports the
\* trace the container held before the call
C20_TraceFixed ==
  [][/\ \A i \in DOMAIN heap : i \in DOMAIN heap' => heap'[i].stack = heap[i].stack
     /\ last = NoCall /\ last'.op = "Err" =>
          heap'[Len(heap')].stack \in {JoinLines(fr) : fr \in CallerStacks}
     /\ last = NoCall /\ last'.op = "unwrap" /\ heap[last'.self].tag = "Err" =>
          /\ last'.kind = "throw"
          /\ last'.val.s = "Tried to unwrap Error: " \o toString(heap[last'.self].value)
                             \o "\n" \o heap[last'.self].stack
     /\ last = NoCall /\ last'.op = "expect" /\ heap[last'.self].tag = "Err" =>
          /\ last'.kind = "throw"
          /\ last'.val.s = last'.msg \o ": " \o toString(heap[last'.self].value)
                             \o "\n" \o heap[last'.self].stack]_vars

\* expect("m") on an Err("e") built in divide called from main: the report
\* ends with the frames of divide and main
C20_Witness ==
  /\ OnErr("expect")
  /\ Self.stack = "at divide (m)\nat main (m)"
  /\ last.val.s = "m: e\nat divide (m)\nat main (m)"

\* the recorded call returned false and invoked nothing
FalseWithoutCall ==
  /\ last.kind = "ret"
  /\ last.val = Bool(FALSE)
  /\ last.calls = <<>>
\* the one invocation recorded is that of the predicate applied to v
PredicateOf(v) ==
  last.calls[1] = CallRec(last.args[1].s, <<v>>, Apply(last.args[1].s, <<v>>, <<>>, <<>>))

\* C21: isOkAnd(p) on Ok(v) invokes p once, with v, and returns p(v); on an
\* Err it returns false and does not invoke p.  isErrAnd(p) on Err(e)
\* invokes p once, with e, and returns p(e); on an Ok it returns false and
\* does not invoke p.
C21_PredicateOnOwnVariant ==
  /\ OnOk("isOkAnd") \/ OnErr("isErrAnd") =>
       /\ CalledOnce(last.args[1], Self.value)
       /\ PredicateOf(Self.value)
       /\ AsCallback
  /\ OnErr("isOkAnd") \/ OnOk("isErrAnd") => FalseWithoutCall

\* Err(e).isOkAnd(x => x === 5) has returned false
C21_Witness ==
  /\ OnErr("isOkAnd")
  /\ last.args[1] = Fn("isFive")
  /\ FalseWithoutCall

\* the recorded call invoked the callback it was given as its n-th argument
\* once, with the wrapped value or error, and nothing else, and did what
\* that callback did
AppliedArg(n) ==
  /\ CalledOnce(last.args[n], Self.value)
  /\ last.calls[1] = CallRec(last.args[n].s, <<Self.value>>,
                             Apply(last.args[n].s, <<Self.value>>, <<>>, <<>>))
  /\ AsCallback

\* C22: mapOr(default, fn) and mapOrElse(defaultFn, fn) take one branch.
\* On Ok(v) both invoke fn once, with v, and return fn(v), defaultFn not
\* being invoked; on Err(e) mapOr returns default as it is and invokes
\* nothing, mapOrElse invokes defaultFn once, with e, and returns
\* defaultFn(e), fn not being invoked.
C22_OneBranch ==
  /\ OnOk("mapOr") \/ OnOk("mapOrElse") => AppliedArg(2)
  /\ OnErr("mapOr") =>
       /\ last.kind = "ret"
       /\ last.val = last.args[1]
       /\ last.calls = <<>>
  /\ OnErr("mapOrElse") => AppliedArg(1)

\* Err("e").mapOrElse(x => x, x => x * 2) has returned "e": x => x was
\* invoked, x => x * 2 was not
C22_Witness ==
  /\ OnErr("mapOrElse")
  /\ last.args = <<Fn("id"), Fn("double")>>
  /\ Self.value = Str("e")
  /\ last.val = Str("e")
  /\ Len(last.calls) = 1

\* C23: inspect(fn) on Ok(v) and inspectErr(fn) on Err(e) invoke fn once,
\* with v or e, and return the receiver whatever fn returned (when fn fails
\* the call fails as fn did); inspect(fn) on an Err and inspectErr(fn) on an
\* Ok return the receiver and do not invoke fn.  No container is
\* constructed.
C23_InspectReturnsSelf ==
  /\ OnOk("inspect") \/ OnErr("inspectErr") =>
       /\ CalledOnce(last.args[1], Self.value)
       /\ last.calls[1] = CallRec(last.args[1].s, <<Self.value>>,
                                  Apply(last.args[1].s, <<Self.value>>, <<>>, <<>>))
       /\ last.calls[1].kind = "ret" => ReturnedSelf
       /\ last.calls[1].kind = "throw" => AsCallback
       /\ Len(heap) = last.base
  /\ OnErr("inspect") \/ OnOk("inspectErr") =>
       /\ ReturnedSelf
       /\ last.calls = <<>>
       /\ Len(heap) = last.base

\* Ok(5).inspect(x => x * 2) has returned the receiver, fn having returned 10
C23_Witness ==
  /\ OnOk("inspect")
  /\ Self.value = Num(5)
  /\ last.calls[1].val = Num(10)
  /\ ReturnedSelf

\* C24: ok() returns the wrapped value on an Ok and undefined on an Err,
\* err() the wrapped error on an Err and undefined on an Ok; neither fails
\* nor invokes anything
C24_OkErrAccessors ==
  /\ last.op \in {"ok", "err"} => last.kind = "ret" /\ last.calls = <<>>
  /\ OnOk("ok") \/ OnErr("err") => last.val = Self.value
  /\ OnErr("ok") \/ OnOk("err") => last.val = Undefined

\* Err("e").ok() has returned undefined
C24_Witness ==
  /\ OnErr("ok")
  /\ Self.value = Str("e")
  /\ last.val = Undefined

\* what ok() and err() of the container i return
OkOf(i) == IF heap[i].tag = "Ok" THEN OkImpl_ok(i, heap).val ELSE ErrImpl_ok(i, heap).val
ErrOf(i) == IF heap[i].tag = "Ok" THEN OkImpl_err(i, heap).val ELSE ErrImpl_err(i, heap).val

\* C28 as stated: ok() returns undefined exactly when the container is an
\* Err, err() returns undefined exactly when it is an Ok, and so exactly one
\* of the two is undefined
C28_Discriminate ==
  /\ last.op = "ok" => (last.val = Undefined <=> Self.tag = "Err")
  /\ last.op = "err" => (last.val = Undefined <=> Self.tag = "Ok")
  /\ \A i \in R2 : (OkOf(i) = Undefined) # (ErrOf(i) = Undefined)

\* C28, amended: ok() returns undefined on every Err and err() undefined
\* on every Ok; when what the container wraps is not undefined the other
\* of the two is not undefined, and when it is undefined both are
C28_DiscriminateDefined ==
  /\ OnErr("ok") \/ OnOk("err") => last.val = Undefined
  /\ OnOk("ok") \/ OnErr("err") => (last.val = Undefined <=> Self.value = Undefined)
  /\ \A i \in R2 :
       IF heap[i].value = Undefined
       THEN OkOf(i) = Undefined /\ ErrOf(i) = Undefined
       ELSE (OkOf(i) = Undefined) # (ErrOf(i) = Undefined)

\* Ok(undefined).ok() has returned undefined, as err() of it does
C28_Witness ==
  /\ OnOk("ok")
  /\ last.val = Undefined
  /\ ErrOf(last.self) = Undefined

\* the receiver of the recorded call is a Some / is None
OnSome(op) == last.op = op /\ opts[last.self].tag = "Some"
OnNone(op) == last.op = op /\ opts[last.self].tag = "None"
ReturnedValue(v) == last.kind = "ret" /\ last.val = v /\ last.calls = <<>>
FailedWith(message) == last.kind = "throw" /\ last.val.s = message /\ last.calls = <<>>

\* C25: the operation table of Option.  On Some(v): isSome() is true,
\* isNone() false, isSomeAnd(p) invokes p once, with v, and returns p(v),
\* and unwrap(), expect(m) and unwrapOr(d) return v.  On None: isSome() is
\* false, isNone() true, isSomeAnd(p) false without invoking p, unwrapOr(d)
\* returns d as it is, unwrap() fails with the message "Tried to unwrap
\* None" and expect(m) with the message m.
C25_OptionTable ==
  /\ OnSome("Option.isSome") \/ OnNone("Option.isNone") => ReturnedValue(Bool(TRUE))
  /\ OnSome("Option.isNone") \/ OnNone("Option.isSome") => ReturnedValue(Bool(FALSE))
  /\ OnSome("Option.isSomeAnd") =>
       /\ CalledOnce(last.args[1], opts[last.self].value)
       /\ PredicateOf(opts[last.self].value)
       /\ AsCallback
  /\ OnNone("Option.isSomeAnd") => FalseWithoutCall
  /\ OnSome("Option.unwrap") \/ OnSome("Option.expect") \/ OnSome("Option.unwrapOr") =>
       ReturnedValue(opts[last.self].value)
  /\ OnNone("Option.unwrapOr") => ReturnedValue(last.args[1])
  /\ OnNone("Option.unwrap") => FailedWith("Tried to unwrap None")
  /\ OnNone("Option.expect") => FailedWith(last.msg)

\* None.expect("should divide") has failed with the message "should divide"
C25_Witness ==
  /\ OnNone("Option.expect")
  /\ last.msg = "should divide"
  /\ FailedWith("should divide")

\* C26: None is one shared instance.  The None that option.ts exports is
\* never changed and never constructed again: no other Option on the heap
\* is absent, and every absent Option a call returns (ok() of an Err and
\* err() of an Ok of the earlier revision, divideOption with a zero
\* argument) is that instance.
C26_NoneShared ==
  [][/\ opts'[1] = opts[1]
     /\ opts[1] = SomeNone_new
     /\ \A i \in DOMAIN opts' : opts'[i].tag = "None" => i = 1
     /\ last'.op = "ok" /\ heap'[last'.self].tag = "Err" => last'.val = Opt(1)
     /\ last'.op = "err" /\ heap'[last'.self].tag = "Ok" => last'.val = Opt(1)
     /\ last'.op = "divideOption" /\ Num(0) \in {last'.args[1], last'.args[2]}
          => last'.val = Opt(1)
     /\ last'.kind = "ret" /\ last'.val.k = "opt" =>
          /\ last'.val.n \in DOMAIN opts'
          /\ opts'[last'.val.n].tag = "None" <=> last'.val = Opt(1)]_vars

\* ok() of an Err of the earlier revision has returned None, a Some being
\* on the heap as well
C26_Witness ==
  /\ last.op = "ok"
  /\ Self.rev = 1
  /\ Self.tag = "Err"
  /\ last.val = Opt(1)
  /\ opts[1].tag = "None"
  /\ Len(opts) > 1


(***************************************************************************)
(* C27: the stored trace of an Err is the captured stack minus the         *)
(* container's own constructor and factory lines: it is exactly the        *)
(* caller's lines, beginning at the first of them, none dropped, none      *)
(* reordered.                                                              *)
(***************************************************************************)
BuiltErr == last.op = "Err" /\ last.kind = "ret"
CallerLines == last.args[2].s

C27_TraceIsCallerLines ==
  BuiltErr => heap[last.val.n].stack = CallerLines

\* the later revision drops the caller's own leading line
C27_DropsCallerLine ==
  /\ BuiltErr
  /\ heap[last.val.n].rev = 2
  /\ CallerLines = JoinLines(<<FrameClientFile, FrameMain>>)
  /\ heap[last.val.n].stack = JoinLines(<<FrameMain>>)

\* the earlier revision keeps the factory's line
C27_KeepsFactoryLine ==
  /\ BuiltErr
  /\ heap[last.val.n].rev = 1
  /\ CallerLines = JoinLines(<<FrameMain>>)
  /\ heap[last.val.n].stack = JoinLines(<<FrameErr, FrameMain>>)

\* what the later revision does keep: with no such word in the caller's
\* leading line, the trace is the caller's lines
C27_PlainCallers ==
  /\ BuiltErr
  /\ heap[last.val.n].rev = 2
  /\ \E fr \in TraceStacks :
       /\ CallerLines = JoinLines(fr)
       /\ ~Includes(fr[1], PatErrImpl) /\ ~Includes(fr[1], PatErr)
  => heap[last.val.n].stack = CallerLines


(***************************************************************************)
(* C29: only mapErr replaces the trace of an Err.  Err(e).mapErr(fn)       *)
(* returns a new container, distinct from the receiver, whose trace is     *)
(* captured at the mapErr call: it is made of the lines of the caller of   *)
(* mapErr (all of them when the first holds none of the words the          *)
(* constructor skips) and not of the receiver's; the receiver keeps its    *)
(* trace.  map, and, andThen, inspect and cloned of an Err return the      *)
(* receiver itself, and so does inspectErr when its callback returns.      *)
(***************************************************************************)
KeepsReceiver == {"map", "and", "andThen", "inspect", "cloned"}
PlainLine(line) == ~Includes(line, PatErrImpl) /\ ~Includes(line, PatErr)
\* trace is made of the last lines of fr, of all of them if fr[1] is plain
CapturedAt(trace, fr) ==
  \E k \in 1..(Len(fr) + 1) :
    /\ trace = JoinLines(SubSeq(fr, k, Len(fr)))
    /\ PlainLine(fr[1]) => k = 1

C29_OnlyMapErrReplacesTrace ==
  [][/\ last = NoCall
     /\ last'.op \in KeepsReceiver \cup {"inspectErr", "mapErr"}
     /\ heap[last'.self].tag = "Err"
     => /\ heap'[last'.self] = heap[last'.self]
        /\ last'.op \in KeepsReceiver =>
             last'.kind = "ret" /\ last'.val = Res(last'.self)
        /\ last'.op = "inspectErr" /\ last'.kind = "ret" =>
             last'.val = Res(last'.self)
        /\ last'.op = "mapErr" /\ last'.kind = "ret" =>
             /\ last'.val.k = "res"
             /\ last'.val.n \notin DOMAIN heap
             /\ last'.val.n \in DOMAIN heap'
             /\ heap'[last'.val.n].tag = "Err"
             /\ \E fr \in TraceStacks :
                  /\ last'.args[2].s = JoinLines(fr)
                  /\ CapturedAt(heap'[last'.val.n].stack, fr)]_vars

C29_Witness ==
  /\ OnErr("mapErr")
  /\ Constructed("Err")
  /\ last.val # Res(last.self)
  /\ Self.stack = JoinLines(<<FrameDivide, FrameMain>>)
  /\ last.args[2].s = JoinLines(<<FrameMain>>)
  /\ heap[last.val.n].stack = JoinLines(<<FrameMain>>)

C29_WitnessKept ==
  /\ OnErr("andThen")
  /\ ReturnedSelf
  /\ Self.stack = JoinLines(<<FrameDivide, FrameMain>>)


(***************************************************************************)
(* C30: the chaining laws, over variant and payload.  Ok(v).andThen(f) is  *)
(* f(v); r.andThen(Ok) is value-equal to r; r.andThen(f).andThen(g) is     *)
(* value-equal to r.andThen(x => f(x).andThen(g)), and r.map(f).map(g) to  *)
(* r.map(x => g(f(x))), each pair with as many invocations of f and of g   *)
(* on the one side as on the other; Ok(v).map(id) is value-equal to Ok(v). *)
(* Two outcomes are value-equal when both are failures with the same       *)
(* thrown value, or both are containers of the same variant and payload.   *)
(***************************************************************************)
\* the heap the recorded call or chain started from
Before == SubSeq(heap, 1, last.base)
\* the recorded outcome and outcome b, reached from the same heap
ValueEqual(b) ==
  LET hb == Before \o b.alloc IN
  /\ last.kind = b.kind
  /\ last.kind = "throw" => last.val = b.val
  /\ last.kind = "ret" =>
       /\ heap[last.val.n].tag = hb[b.val.n].tag
       /\ heap[last.val.n].value = hb[b.val.n].value
Invocations(calls, fn) == Cardinality({i \in DOMAIN calls : calls[i].fn = fn})
SameInvocations(b) ==
  \A a \in {1, 2} :
    Invocations(last.calls, last.args[a].s) = Invocations(b.calls, last.args[a].s)
SameAs(b) == ValueEqual(b) /\ SameInvocations(b)
ValueEqualToSelf ==
  /\ last.kind = "ret"
  /\ last.val.k = "res"
  /\ heap[last.val.n].tag = Self.tag
  /\ heap[last.val.n].value = Self.value

C30_ChainingLaws ==
  /\ OnOk("andThen") => CalledOnce(last.args[1], Self.value) /\ AsCallback
  /\ last.op = "andThen" /\ last.args = <<Fn("toOk")>> => ValueEqualToSelf
  /\ OnOk("map") /\ last.args = <<Fn("id")>> => ValueEqualToSelf
  /\ last.op = "andThen.andThen" =>
       SameAs(AndThenComposed(last.self, last.args[1].s, last.args[2].s, <<FrameMain>>, Before))
  /\ last.op = "andThen(andThen)" =>
       SameAs(AndThenAndThen(last.self, last.args[1].s, last.args[2].s, <<FrameMain>>, Before))
  /\ last.op = "map.map" =>
       SameAs(MapComposed(last.self, last.args[1].s, last.args[2].s, <<FrameMain>>, Before))
  /\ last.op = "map(map)" =>
       SameAs(MapMap(last.self, last.args[1].s, last.args[2].s, <<FrameMain>>, Before))

\* Ok(5).andThen(toOk).andThen(toErr): both functions run, the chain is an Err
C30_Witness ==
  /\ OnOk("andThen.andThen")
  /\ last.args = <<Fn("toOk"), Fn("toErr")>>
  /\ Len(last.calls) = 2
  /\ last.kind = "ret"
  /\ heap[last.val.n].tag = "Err"
  /\ Len(heap) = last.base + 2

C30_WitnessMap ==
  /\ OnOk("map.map")
  /\ last.args = <<Fn("double"), Fn("double")>>
  /\ last.kind = "ret"
  /\ heap[last.val.n].value = Num(20)

====
